---- MODULE Spec2Model ----
(***************************************************************************)
(* Model of the manufacturing platform's ingest data plane:                *)
(*   - services/kafkaService.ts    (stream producer, publishAlert,         *)
(*                                  publishSensorData)                     *)
(*   - lambdas/ingestSensorData/handler.ts (the ingest handler)            *)
(*   - services/alertNotificationService.ts (processCriticalAlert)         *)
(*   - services/storageService.ts  (pools, storeSensorDataMultiTier)       *)
(*   - services/tenantService.ts   (resolveTenant, detectAnomalies)        *)
(* Each subsystem has its own variables and its own specification; the     *)
(* specifications share the module's pure operators.                       *)
(* Time is in milliseconds.  Vibration is in tenths (2.0 -> 20).           *)
(***************************************************************************)
EXTENDS Integers, Sequences, FiniteSets, TLC

VARIABLES
  \* ---- kafkaService.ts
  producer,     \* module variable `producer`: NoProducer or [id, conn]
  created,      \* number of producer instances created so far
  kcalls,       \* publishAlert / publishSensorData invocations, by call id
  disc,         \* disconnectKafka: the call in progress, instances created since the last call
  \* ---- lambdas/ingestSensorData/handler.ts
  hpc,          \* where the handler is: idle, awaitAlerts, awaitBg, responded, rejected
  hreq,         \* the event: [tenant, body]
  hctx,         \* the TenantContext withTenantContext resolved, or NoContext
  usageTicks,   \* TenantMetricsService.trackUsage calls
  anomalies,    \* result of detectAnomalies
  alerts,       \* alerts built, each handed to publishAlert with its topic
  dispatch,     \* per alert: state of publishAlert and of processCriticalAlert
  bg,           \* the detached Promise.all: storage fan-out and sensor-data publish
  response,     \* the APIGatewayProxyResult returned, or NoResponse
  helapsed,     \* Date.now() - startTime, ms
  \* ---- services/tenantService.ts: TenantResolver
  tenantCache,  \* keys of the module's tenantCache map
  rcalls,       \* resolveTenant invocations in progress, by caller
  rtimers,      \* pending setTimeout evictions, oldest first: [tenant, remaining]
  cachedFor,    \* per tenant: ms since its cache entry was set, -1 when not cached
  exhausted,    \* tenants whose requests this hour have reached api_rate_limit
  \* ---- services/storageService.ts: pools, storeToTimescale, storeToPostgres
  pools,        \* per pool: its connections (session variable, running query) and queue
  tenantPools,  \* keys of the tenantPools map (dedicated pools created)
  pcalls,       \* per request: tenant and the state of its hot and warm writes
  executed,     \* statements run so far: [pool, kind, tenant, session]
  hotRows,      \* rows of sensor_data_raw written
  warmRows,     \* rows of equipment_status written
  \* ---- services/storageService.ts: storeSensorDataMultiTier
  fan,          \* the fan-out call: tenant, tier promises, the StorageResult
  coldPuts,     \* objects put by archiveToS3: [bucket, key]
  errorPuts,    \* objects put by archiveErrorToS3, in order of issue
  \* ---- services/tenantService.ts: detectAnomalies
  detIn,        \* the reading detectAnomalies was last called with
  detOut,       \* the anomalies it returned
  \* ---- services/tenantService.ts: TenantResolver.extractTenantId
  exIn,         \* the event extractTenantId is called with, or NoEvent
  exOut,        \* the identifier it returned (Absent: null), while the call is open
  \* ---- handler.ts + storageService.ts: the same body stored again
  upClock,      \* new Date(), in steps
  upReq,        \* the request being stored: tenant, body, ingestionTimestamp, writes
  upCount,      \* requests stored so far
  upHot,        \* rows of sensor_data_raw (dedicated database)
  upWarm,       \* rows of equipment_status (shared database)
  upOnce,       \* body of the previous request and the rows it left
  \* ---- storageService.ts: getTenantAwareTimescalePool called in sequence
  selCreated,   \* per tenant_id, how many dedicated pools `new Pool` has made
  selMap,       \* keys of the tenantPools map
  selOut,       \* the last call: its context, the usage it read, the pool returned
  selDecide,    \* the last shouldUseDedicatedTimescale call: its inputs and result
  selN,         \* calls so far
  \* ---- alertNotificationService.ts: processCriticalAlert calls
  nEnvTopic,    \* process.env.ALERTS_TOPIC_ARN || CRITICAL_ALERTS_SNS_TOPIC, once read
  nCall,        \* the call in progress: tenant of the request, channel states
  nSent,        \* notifications the notification service accepted: [topic, tenant, n]
  nResult,      \* what the last call resolved with
  \* ---- lambdas/getEquipmentStatus, getEquipmentMetrics, getRecentSensorData
  qReq,         \* the query in progress: operation, position, what it did so far
  qN,           \* queries so far
  \* ---- tenantService.ts: TenantMetricsService.checkLimits
  limIn,        \* the last call's arguments: tenant, operation, currentValue
  limOut,       \* what it returned
  \* ---- storageService.ts: archiveToS3 / archiveErrorToS3, any context
  archObjs,     \* objects put so far: bucket, key, the tenant whose reading it is
  archN,        \* archiveToS3 calls so far
  \* ---- tenantService.ts: withTenantContext, requests sharing a process
  processEnv,   \* process.env: CURRENT_TENANT_ID, CURRENT_DEPLOYMENT_TYPE
  wreqs,        \* per request: where it is, its tenant, what its body last read
  \* ---- lambdas/getEquipmentStatus/handler.ts: determineHealthStatus
  hsIn,         \* the last status summary's inputs: equipment status, reading, age
  hsOut         \* its health_status

kafkaVars == <<producer, created, kcalls, disc>>

ingestVars == <<hpc, hreq, hctx, usageTicks, anomalies, alerts, dispatch, bg, response, helapsed>>

resolveVars == <<tenantCache, rcalls, rtimers, cachedFor, exhausted>>

poolVars == <<pools, tenantPools, pcalls, executed, hotRows, warmRows>>

storeVars == <<fan, coldPuts, errorPuts>>

detectVars == <<detIn, detOut>>

extractVars == <<exIn, exOut>>

upsertVars == <<upClock, upReq, upCount, upHot, upWarm, upOnce>>

selectVars == <<selCreated, selMap, selOut, selDecide, selN>>

notifyVars == <<nEnvTopic, nCall, nSent, nResult>>

queryVars == <<qReq, qN>>

limitVars == <<limIn, limOut>>

archiveVars == <<archObjs, archN>>

contextVars == <<processEnv, wreqs>>

healthVars == <<hsIn, hsOut>>

vars == <<kafkaVars, ingestVars, resolveVars, poolVars, storeVars, detectVars, extractVars, upsertVars, selectVars, notifyVars, queryVars, limitVars, archiveVars, contextVars, healthVars>>

\* What an action of one subsystem leaves alone.
nonKafkaVars == <<ingestVars, resolveVars, poolVars, storeVars, detectVars, extractVars, upsertVars, selectVars, notifyVars, queryVars, limitVars, archiveVars, contextVars, healthVars>>
nonIngestVars == <<kafkaVars, resolveVars, poolVars, storeVars, detectVars, extractVars, upsertVars, selectVars, notifyVars, queryVars, limitVars, archiveVars, contextVars, healthVars>>
nonResolveVars == <<kafkaVars, ingestVars, poolVars, storeVars, detectVars, extractVars, upsertVars, selectVars, notifyVars, queryVars, limitVars, archiveVars, contextVars, healthVars>>
nonPoolVars == <<kafkaVars, ingestVars, resolveVars, storeVars, detectVars, extractVars, upsertVars, selectVars, notifyVars, queryVars, limitVars, archiveVars, contextVars, healthVars>>
nonStoreVars == <<kafkaVars, ingestVars, resolveVars, poolVars, detectVars, extractVars, upsertVars, selectVars, notifyVars, queryVars, limitVars, archiveVars, contextVars, healthVars>>
nonDetectVars == <<kafkaVars, ingestVars, resolveVars, poolVars, storeVars, extractVars, upsertVars, selectVars, notifyVars, queryVars, limitVars, archiveVars, contextVars, healthVars>>
nonExtractVars == <<kafkaVars, ingestVars, resolveVars, poolVars, storeVars, detectVars, upsertVars, selectVars, notifyVars, queryVars, limitVars, archiveVars, contextVars, healthVars>>
nonUpsertVars == <<kafkaVars, ingestVars, resolveVars, poolVars, storeVars, detectVars, extractVars, selectVars, notifyVars, queryVars, limitVars, archiveVars, contextVars, healthVars>>
nonSelectVars == <<kafkaVars, ingestVars, resolveVars, poolVars, storeVars, detectVars, extractVars, upsertVars, notifyVars, queryVars, limitVars, archiveVars, contextVars, healthVars>>
nonNotifyVars == <<kafkaVars, ingestVars, resolveVars, poolVars, storeVars, detectVars, extractVars, upsertVars, selectVars, queryVars, limitVars, archiveVars, contextVars, healthVars>>
nonQueryVars == <<kafkaVars, ingestVars, resolveVars, poolVars, storeVars, detectVars, extractVars, upsertVars, selectVars, notifyVars, limitVars, archiveVars, contextVars, healthVars>>
nonLimitVars == <<kafkaVars, ingestVars, resolveVars, poolVars, storeVars, detectVars, extractVars, upsertVars, selectVars, notifyVars, queryVars, archiveVars, contextVars, healthVars>>
nonArchiveVars == <<kafkaVars, ingestVars, resolveVars, poolVars, storeVars, detectVars, extractVars, upsertVars, selectVars, notifyVars, queryVars, limitVars, contextVars, healthVars>>
nonContextVars == <<kafkaVars, ingestVars, resolveVars, poolVars, storeVars, detectVars, extractVars, upsertVars, selectVars, notifyVars, queryVars, limitVars, archiveVars, healthVars>>
nonHealthVars == <<kafkaVars, ingestVars, resolveVars, poolVars, storeVars, detectVars, extractVars, upsertVars, selectVars, notifyVars, queryVars, limitVars, archiveVars, contextVars>>

Absent == "undefined"

(***************************************************************************)
(*                      services/kafkaService.ts                           *)
(***************************************************************************)

MaxCalls == 2          \* publish calls per behaviour

NoProducer == [id |-> 0, conn |-> "none"]

PRIORITY_TOPIC == "manufacturing-alerts-priority"
SENSOR_TOPIC == "sensor-data"

Severities == {"critical", "high", "medium"}

CallIds == 1..MaxCalls

\* One publish call.  pc: where the call is; send: state of the message it
\* handed to producer.send ("none" before, then "pending", "ok" or "err");
\* connected: whether the producer's connect() had completed at that moment;
\* elapsed: ms since the send was submitted, while the call still races it;
\* lat: ms between the submission of the send and the call's return.
IdleCall == [kind |-> "none", severity |-> Absent, topic |-> Absent, pc |-> "idle",
             send |-> "none", inst |-> 0, connected |-> FALSE, elapsed |-> 0, lat |-> -1]

\* setTimeout(() => reject(new Error('Kafka timeout')), 100)
KafkaTimeoutMs == 100

\* Variant: a catch block that rethrows, as publishSensorData's does.
AlertCatch_rethrow == "raised"
\* publishAlert's catch block: log, do not rethrow.
AlertCatch == "returned"

\* publishSensorData's catch block: log and rethrow.
SensorCatch == "raised"

CatchOf(kind) == IF kind = "alert" THEN AlertCatch ELSE SensorCatch

\* `if (alert.severity === 'critical')`: send without awaiting, return.
FireAndForget(kind, sev) == kind = "alert" /\ sev = "critical"

\* disconnectKafka.  pc: idle or awaiting producer.disconnect(); ended: a call
\* has ended and no publish has started since; epoch: producer instances
\* created since disconnectKafka was last called.
IdleDisconnect == [pc |-> "idle", ended |-> FALSE, epoch |-> 0]

KafkaInit ==
  /\ producer = NoProducer
  /\ created = 0
  /\ kcalls = [c \in CallIds |-> IdleCall]
  /\ disc = IdleDisconnect

\* The part of a publish after `await getKafkaProducer()`: build the message and
\* hand it to producer.send.  cs is the call table to update.
SubmitSend(cs, c, prod) ==
  LET call == cs[c]
      ff == FireAndForget(call.kind, call.severity)
  IN kcalls' = [cs EXCEPT ![c] =
        [@ EXCEPT !.pc = IF ff THEN "returned"
                         ELSE IF call.kind = "alert" THEN "racing" ELSE "awaitSend",
                  !.send = "pending",
                  !.inst = prod.id,
                  !.connected = (prod.conn = "connected"),
                  !.elapsed = 0,
                  !.lat = IF ff THEN 0 ELSE -1]]

\* A publish call up to its first suspension: getKafkaProducer returns the module
\* variable when it is set (connected or not), else creates the producer, stores
\* it and awaits connect().
StartCall(c, kind, sev, topic) ==
  /\ kcalls[c].pc = "idle"
  /\ UNCHANGED nonKafkaVars
  /\ \A d \in CallIds : d < c => kcalls[d].pc # "idle"
  /\ LET cs == [kcalls EXCEPT ![c] = [IdleCall EXCEPT !.kind = kind, !.severity = sev,
                                                     !.topic = topic]]
     IN IF producer # NoProducer
        THEN /\ SubmitSend(cs, c, producer)
             /\ UNCHANGED <<producer, created>>
             /\ disc' = [disc EXCEPT !.ended = FALSE]
        ELSE /\ producer' = [id |-> created + 1, conn |-> "connecting"]
             /\ created' = created + 1
             /\ disc' = [disc EXCEPT !.ended = FALSE, !.epoch = @ + 1]
             /\ kcalls' = [cs EXCEPT ![c].pc = "awaitConnect", ![c].inst = created + 1]

PublishAlertCall(c) ==
  \E sev \in Severities : StartCall(c, "alert", sev, PRIORITY_TOPIC)

PublishSensorDataCall(c) ==
  StartCall(c, "sensor", Absent, SENSOR_TOPIC)

\* The connection state of the producer instance n after its connect() settled.
Settled(n, conn) ==
  IF producer.id = n /\ producer.conn = "connecting"
  THEN [producer EXCEPT !.conn = conn] ELSE producer

\* producer.connect() resolves: the creating caller resumes and sends on the
\* instance it created.
ConnectOk(c) ==
  /\ kcalls[c].pc = "awaitConnect"
  /\ UNCHANGED nonKafkaVars
  /\ producer' = Settled(kcalls[c].inst, "connected")
  /\ SubmitSend(kcalls, c, [id |-> kcalls[c].inst, conn |-> "connected"])
  /\ UNCHANGED <<created, disc>>

\* producer.connect() rejects: getKafkaProducer throws into the caller's catch;
\* the module variable keeps the never-connected producer.
ConnectFail(c) ==
  /\ kcalls[c].pc = "awaitConnect"
  /\ UNCHANGED nonKafkaVars
  /\ producer' = Settled(kcalls[c].inst, "failed")
  /\ kcalls' = [kcalls EXCEPT ![c].pc = CatchOf(kcalls[c].kind)]
  /\ UNCHANGED <<created, disc>>

\* The broker answers a send (res = "ok") or the send rejects (res = "err").  A
\* call still waiting for it resumes; a call that already returned only logs.
SendSettle(c, res) ==
  /\ kcalls[c].send = "pending"
  /\ UNCHANGED nonKafkaVars
  /\ LET waiting == kcalls[c].pc \in {"racing", "awaitSend"}
     IN kcalls' = [kcalls EXCEPT ![c] =
          [@ EXCEPT !.send = res,
                    !.pc = IF ~waiting THEN @
                           ELSE IF res = "ok" THEN "returned" ELSE CatchOf(kcalls[c].kind),
                    !.lat = IF waiting THEN kcalls[c].elapsed ELSE @]]
  /\ UNCHANGED <<producer, created, disc>>

SendAck(c) == SendSettle(c, "ok")

SendError(c) == SendSettle(c, "err")

TimerDue(c) == kcalls[c].pc = "racing" /\ kcalls[c].elapsed >= KafkaTimeoutMs

\* The timer of Promise.race rejects first: catch, log, return.  The send stays
\* in flight.
KafkaTimeout(c) ==
  /\ TimerDue(c)
  /\ UNCHANGED nonKafkaVars
  /\ kcalls' = [kcalls EXCEPT ![c].pc = CatchOf("alert"), ![c].lat = kcalls[c].elapsed]
  /\ UNCHANGED <<producer, created, disc>>

\* disconnectKafka up to its await: with a producer set, producer.disconnect()
\* is called on it (with none set the call does nothing).
DisconnectKafka ==
  /\ producer # NoProducer
  /\ UNCHANGED nonKafkaVars
  /\ disc.pc = "idle"
  /\ disc' = [pc |-> "awaiting", ended |-> FALSE, epoch |-> 0]
  /\ UNCHANGED <<producer, created, kcalls>>

\* producer.disconnect() settles: when it resolved the module variable is set
\* to null; when it rejected disconnectKafka rejects and the variable is kept.
DisconnectSettle(res) ==
  /\ disc.pc = "awaiting"
  /\ UNCHANGED nonKafkaVars
  /\ producer' = IF res = "ok" THEN NoProducer ELSE producer
  /\ disc' = [disc EXCEPT !.pc = "idle", !.ended = TRUE]
  /\ UNCHANGED <<created, kcalls>>

\* 50 ms pass for every call racing its send; a due timer fires before time
\* moves on.
KafkaTick ==
  /\ \E c \in CallIds : kcalls[c].pc = "racing"
  /\ UNCHANGED nonKafkaVars
  /\ \A c \in CallIds : ~TimerDue(c)
  /\ kcalls' = [c \in CallIds |->
        IF kcalls[c].pc = "racing" THEN [kcalls[c] EXCEPT !.elapsed = @ + 50] ELSE kcalls[c]]
  /\ UNCHANGED <<producer, created, disc>>

KafkaNext ==
  \/ \E c \in CallIds : PublishAlertCall(c)
  \/ \E c \in CallIds : PublishSensorDataCall(c)
  \/ \E c \in CallIds : ConnectOk(c)
  \/ \E c \in CallIds : ConnectFail(c)
  \/ \E c \in CallIds : SendAck(c)
  \/ \E c \in CallIds : SendError(c)
  \/ \E c \in CallIds : KafkaTimeout(c)
  \/ DisconnectKafka
  \/ \E res \in {"ok", "err"} : DisconnectSettle(res)
  \/ KafkaTick


\* What one publishAlert call comes to, given how getKafkaProducer's connect and
\* the send end (send = "timeout": no answer within the race's timer): the
\* summary of the call's path through StartCall .. KafkaTimeout above.
PublishAlertResult(sev, connect, send) ==
  IF connect = "err" THEN AlertCatch
  ELSE IF FireAndForget("alert", sev) THEN "returned"
  ELSE IF send = "ok" THEN "returned"
  ELSE AlertCatch

\* What one publishSensorData call comes to.
PublishSensorDataResult(connect, send) ==
  IF connect = "err" \/ send = "err" THEN SensorCatch ELSE "returned"

(***************************************************************************)
(*        services/tenantService.ts: directory and anomaly detection       *)
(***************************************************************************)

\* loadTenantConfig's mockTenants.
MockTenants == {"acme-corp", "shared-tenant"}

DeploymentType(tid) == IF tid = "acme-corp" THEN "single-tenant" ELSE "multi-tenant"

SubscriptionTier(tid) == IF tid = "acme-corp" THEN "enterprise" ELSE "professional"

NoContext == [tenant_id |-> Absent, deployment_type |-> Absent, subscription_tier |-> Absent]

TenantContextOf(tid) ==
  [tenant_id |-> tid, deployment_type |-> DeploymentType(tid),
   subscription_tier |-> SubscriptionTier(tid)]

\* setTimeout(() => tenantCache.delete(tenantId), 5 * 60 * 1000)
CACHE_TTL_MS == 300000

\* Variant: a directory that answers for any identifier.
TenantKnown_any(tid) == TRUE
\* loadTenantConfig: the directory holds the tenant, or it throws.
TenantKnown(tid) == tid \in MockTenants

\* validateTenantAccess(tenant, event), called for a tenant over its limit or
\* not: the rate limit and the compliance check are logged, nothing is thrown.
validateTenantAccess(tid, overLimit) == "ok"

\* tenantCache.set(tenantId, tenant); setTimeout(delete, 5 * 60 * 1000)
CacheSet(tid) ==
  /\ tenantCache' = tenantCache \cup {tid}
  /\ cachedFor' = [cachedFor EXCEPT ![tid] = 0]
  /\ rtimers' = Append(rtimers, [tenant |-> tid, remaining |-> CACHE_TTL_MS])

\* resolveTenant run to its end in one piece (the mock directory answers without
\* I/O): whether it returns a context for the identifier tid.
Resolves(tid) ==
  /\ tid # Absent
  /\ \/ tid \in tenantCache
     \/ /\ TenantKnown(tid)
        /\ validateTenantAccess(tid, tid \in exhausted) = "ok"

\* ... and what it does to the cache.
ResolveEffect(tid) ==
  IF Resolves(tid) /\ tid \notin tenantCache
  THEN CacheSet(tid) /\ UNCHANGED <<rcalls, exhausted>>
  ELSE UNCHANGED resolveVars

\* A measurement of a reading: a number, or the field is missing.
Undefined == [def |-> FALSE, v |-> 0]
Num(n) == [def |-> TRUE, v |-> n]

\* THRESHOLDS (vibration in tenths: 2.0 -> 20, 5.0 -> 50)
TEMP_MIN == 0
TEMP_MAX == 150
TEMP_CRITICAL_MAX == 180
VIB_MAX == 20
VIB_CRITICAL_MAX == 50
PRES_MIN == 50
PRES_MAX == 500
PRES_CRITICAL_MAX == 800

NewAnomaly(type, sev, value, threshold) ==
  [type |-> type, severity |-> sev, value |-> value, threshold |-> threshold]

\* Variant: the bounds themselves count as breaches.
detectTemperatureAnomalies_inclusive(t) ==
  IF t >= TEMP_CRITICAL_MAX
  THEN <<NewAnomaly("critical_temperature", "critical", t, TEMP_CRITICAL_MAX)>>
  ELSE IF t >= TEMP_MAX
  THEN <<NewAnomaly("high_temperature", "high", t, TEMP_MAX)>>
  ELSE IF t <= TEMP_MIN
  THEN <<NewAnomaly("high_temperature", "medium", t, TEMP_MIN)>>
  ELSE <<>>

detectTemperatureAnomalies(t) ==
  IF t > TEMP_CRITICAL_MAX
  THEN <<NewAnomaly("critical_temperature", "critical", t, TEMP_CRITICAL_MAX)>>
  ELSE IF t > TEMP_MAX
  THEN <<NewAnomaly("high_temperature", "high", t, TEMP_MAX)>>
  ELSE IF t < TEMP_MIN
  THEN <<NewAnomaly("high_temperature", "medium", t, TEMP_MIN)>>
  ELSE <<>>

detectVibrationAnomalies(v) ==
  IF v > VIB_CRITICAL_MAX
  THEN <<NewAnomaly("critical_vibration", "critical", v, VIB_CRITICAL_MAX)>>
  ELSE IF v > VIB_MAX
  THEN <<NewAnomaly("high_vibration", "high", v, VIB_MAX)>>
  ELSE <<>>

detectPressureAnomalies(p) ==
  IF p > PRES_CRITICAL_MAX
  THEN <<NewAnomaly("critical_pressure", "critical", p, PRES_CRITICAL_MAX)>>
  ELSE IF p > PRES_MAX \/ p < PRES_MIN
  THEN <<NewAnomaly("abnormal_pressure", "medium", p,
                    IF p > PRES_MAX THEN PRES_MAX ELSE PRES_MIN)>>
  ELSE <<>>

detectAnomalies(sd) ==
  (IF sd.temperature.def THEN detectTemperatureAnomalies(sd.temperature.v) ELSE <<>>)
  \o (IF sd.vibration.def THEN detectVibrationAnomalies(sd.vibration.v) ELSE <<>>)
  \o (IF sd.pressure.def THEN detectPressureAnomalies(sd.pressure.v) ELSE <<>>)

(***************************************************************************)
(*      services/alertNotificationService.ts: processCriticalAlert         *)
(***************************************************************************)

\* Promise.allSettled of the metrics publish (cw) and the notification (sns),
\* each "ok" or "err" (sns "skipped": no topic ARN configured, returns at once).
\* Variant: Promise.all in place of Promise.allSettled.
processCriticalAlert_all(cw, sns) ==
  [state |-> IF cw = "err" \/ sns = "err" THEN "rejected" ELSE "resolved",
   cloudwatch |-> cw # "err", sns |-> sns # "err",
   success |-> cw # "err" /\ sns # "err",
   channels_notified |-> {ch \in {"cloudwatch"} : cw # "err"}
                            \cup {ch \in {"sns"} : sns # "err"}]
\* processCriticalAlert: both channels are waited for, failures are logged.
processCriticalAlert(cw, sns) ==
  [state |-> "resolved",
   cloudwatch |-> cw # "err", sns |-> sns # "err",
   success |-> cw # "err" /\ sns # "err",
   channels_notified |-> {ch \in {"cloudwatch"} : cw # "err"}
                            \cup {ch \in {"sns"} : sns # "err"}]

(***************************************************************************)
(*                lambdas/ingestSensorData/handler.ts                      *)
(***************************************************************************)

MaxHandlerTicks == 6    \* horizon of the handler's clock, in steps of 100 ms

TenantHeaders == MockTenants \cup {Absent, "ghost-corp"}

EquipmentIds == {Absent, "", "PUMP_001"}
Timestamps == {Absent, "2025-11-23T10:30:00Z"}
TempVals == {Undefined, Num(-5), Num(75), Num(165), Num(205)}
VibVals == {Undefined, Num(12), Num(35), Num(82)}
PresVals == {Undefined, Num(30), Num(250), Num(600), Num(1150)}

Readings == [equipment_id : EquipmentIds, timestamp : Timestamps,
             temperature : TempVals, vibration : VibVals, pressure : PresVals]

EmptyObject == [equipment_id |-> Absent, timestamp |-> Absent,
                temperature |-> Undefined, vibration |-> Undefined, pressure |-> Undefined]

\* event.body: missing, not JSON, the JSON text null, or a JSON object.
Bodies == {[kind |-> k, fields |-> EmptyObject] : k \in {"absent", "malformed", "null"}}
          \cup {[kind |-> "object", fields |-> r] : r \in Readings}

Events == [tenant : TenantHeaders, body : Bodies]

\* Variant: a parser that reads unparsable text as the empty object.
JSONParse_lenient(body) ==
  [threw |-> FALSE, isNull |-> body.kind = "null", value |-> body.fields]

\* JSON.parse(event.body || '{}')
JSONParse(body) ==
  [threw |-> body.kind = "malformed", isNull |-> body.kind = "null", value |-> body.fields]

\* !x for a string field
Falsy(x) == x = Absent \/ x = ""

\* Variant: a filter that keeps critical anomalies only.
IsAlertSeverity_criticalOnly(a) == a.severity = "critical"
\* a.severity === 'critical' || a.severity === 'high'
IsAlertSeverity(a) == a.severity \in {"critical", "high"}

\* The alert the handler builds for an anomaly, with the topic it is published to.
\* TenantConfigService.getKafkaConfig: the topics of a tenant.
getKafkaConfig(ctx) ==
  [topics |-> [sensorData |-> "sensor-data-" \o ctx.tenant_id,
               alerts |-> "alerts-" \o ctx.tenant_id,
               shared |-> IF ctx.deployment_type = "multi-tenant"
                          THEN "manufacturing-shared" ELSE Absent]]

BuildAlert(sd, a, n) ==
  [alert_id |-> n, equipment_id |-> sd.equipment_id, type |-> a.type,
   severity |-> a.severity, topic |-> PRIORITY_TOPIC]

BuildAlerts(sd, anoms) ==
  LET sel == SelectSeq(anoms, IsAlertSeverity)
  IN [i \in 1..Len(sel) |-> BuildAlert(sd, sel[i], i)]

\* `details` of the envelope as the set of its entries; undefined (the key is
\* dropped by JSON.stringify) is the empty set.
NoDetails == {}

NoResponse ==
  [status |-> 0, success |-> FALSE, error |-> Absent, details |-> NoDetails,
   equipment_id |-> Absent, anomalies_detected |-> 0, alerts_created |-> 0,
   processing_latency_ms |-> 0, sla_compliant |-> FALSE]

SLA_MS == 500

\* Variant: a latency of exactly the limit counts as compliant.
createSuccessResponse_inclusive(eq, nAnom, nAlerts, latency) ==
  [status |-> 200, success |-> TRUE, error |-> Absent, details |-> NoDetails,
   equipment_id |-> eq, anomalies_detected |-> nAnom, alerts_created |-> nAlerts,
   processing_latency_ms |-> latency, sla_compliant |-> latency <= SLA_MS]
\* The 200 envelope built at handler.ts 96-104.
createSuccessResponse(eq, nAnom, nAlerts, latency) ==
  [status |-> 200, success |-> TRUE, error |-> Absent, details |-> NoDetails,
   equipment_id |-> eq, anomalies_detected |-> nAnom, alerts_created |-> nAlerts,
   processing_latency_ms |-> latency, sla_compliant |-> latency < SLA_MS]

createErrorResponse(status, error, details) ==
  [NoResponse EXCEPT !.status = status, !.error = error, !.details = details]

\* launches: how many times the background Promise.all was started.
NoBackground == [store |-> "none", publish |-> "none", topic |-> Absent, log |-> "none",
                 launchedAt |-> -1, launches |-> 0]

\* Variant: a handler that awaits the background Promise.all.
AwaitsBackground_yes == TRUE
\* Whether the handler awaits the background Promise.all before it returns.
AwaitsBackground == FALSE

IngestInit ==
  /\ hpc = "idle"
  /\ hreq = [tenant |-> Absent, body |-> [kind |-> "absent", fields |-> EmptyObject]]
  /\ hctx = NoContext
  /\ usageTicks = 0
  /\ anomalies = <<>>
  /\ alerts = <<>>
  /\ dispatch = <<>>
  /\ bg = NoBackground
  /\ response = NoResponse
  /\ helapsed = 0

\* Lines 79-104: launch the detached fan-out and sensor-data publish, build the
\* success response and return it.
LaunchAndRespond(sd, anoms) ==
  /\ bg' = [store |-> "pending", publish |-> "pending", topic |-> SENSOR_TOPIC,
            log |-> "none", launchedAt |-> helapsed, launches |-> bg.launches + 1]
  /\ IF AwaitsBackground
     THEN /\ hpc' = "awaitBg"
          /\ UNCHANGED response
     ELSE /\ hpc' = "responded"
          /\ response' = createSuccessResponse(sd.equipment_id, Len(anoms),
                            Len(SelectSeq(anoms, IsAlertSeverity)), helapsed)

\* The catch block of the handler.
RespondInternalError ==
  /\ hpc' = "responded"
  /\ response' = createErrorResponse(500, "Internal server error", {"error.message"})

\* One alert's dispatch: pub, notify: the state of its publishAlert and of its
\* processCriticalAlert; pubOutcome: how the stream publish ended (ok, error,
\* timeout); notifyOk: the `success` flag processCriticalAlert resolved with.
PendingDispatch == [pub |-> "pending", pubOutcome |-> "none",
                    notify |-> "pending", notifyOk |-> FALSE]

\* The handler from the request to its first suspension on pending work:
\* withTenantContext resolves the tenant (a failure rejects the handler's promise,
\* no response is built), then usage tick, parse, field check, detection, alert
\* dispatch; with no alert to await it runs on to the response.
Receive(ev) ==
  /\ hpc = "idle"
  /\ UNCHANGED <<kafkaVars, poolVars, storeVars, detectVars, extractVars, upsertVars, selectVars, notifyVars, queryVars, limitVars, archiveVars, contextVars, healthVars>>
  /\ ResolveEffect(ev.tenant)
  /\ hreq' = ev
  /\ UNCHANGED helapsed
  /\ IF ~Resolves(ev.tenant)
     THEN /\ hpc' = "rejected"
          /\ UNCHANGED <<hctx, usageTicks, anomalies, alerts, dispatch, bg, response>>
     ELSE
       /\ hctx' = TenantContextOf(ev.tenant)
       /\ usageTicks' = usageTicks + 1
       /\ LET parsed == JSONParse(ev.body)
              sd == parsed.value
              anoms == detectAnomalies(sd)
              built == BuildAlerts(sd, anoms)
          IN IF parsed.threw \/ parsed.isNull
             THEN /\ RespondInternalError
                  /\ UNCHANGED <<anomalies, alerts, dispatch, bg>>
             ELSE IF Falsy(sd.equipment_id) \/ Falsy(sd.timestamp)
             THEN /\ hpc' = "responded"
                  /\ response' = createErrorResponse(400,
                         "Missing required fields: equipment_id, timestamp", NoDetails)
                  /\ UNCHANGED <<anomalies, alerts, dispatch, bg>>
             ELSE /\ anomalies' = anoms
                  /\ alerts' = built
                  /\ dispatch' = [i \in 1..Len(built) |-> PendingDispatch]
                  /\ IF built = <<>>
                     THEN LaunchAndRespond(sd, anoms)
                     ELSE /\ hpc' = "awaitAlerts"
                          /\ UNCHANGED <<bg, response>>

\* Variant: a dispatch still pending counts as fulfilled.
DispatchState_eager(d) ==
  IF d.pub = "raised" \/ d.notify = "rejected" THEN "rejected" ELSE "fulfilled"
\* Promise.all([publishAlert, processCriticalAlert]) of alert d.
DispatchState(d) ==
  IF d.pub = "raised" \/ d.notify = "rejected" THEN "rejected"
  ELSE IF d.pub = "returned" /\ d.notify = "resolved" THEN "fulfilled"
  ELSE "pending"

\* `await Promise.all(criticalAlerts)` with the dispatches in states ds: the
\* handler resumes when all are fulfilled, its catch runs when one rejects.
AfterDispatch(ds) ==
  IF hpc # "awaitAlerts"
  THEN UNCHANGED <<hpc, bg, response>>
  ELSE IF \E i \in 1..Len(ds) : DispatchState(ds[i]) = "rejected"
  THEN RespondInternalError /\ UNCHANGED bg
  ELSE IF \A i \in 1..Len(ds) : DispatchState(ds[i]) = "fulfilled"
  THEN LaunchAndRespond(hreq.body.fields, anomalies)
  ELSE UNCHANGED <<hpc, bg, response>>

\* publishAlert of alert i settles.
PublishAlertSettle(i) ==
  /\ i \in 1..Len(dispatch)
  /\ UNCHANGED nonIngestVars
  /\ dispatch[i].pub = "pending"
  /\ \E connect \in {"ok", "err"}, send \in {"ok", "err", "timeout"} :
       LET ds == [dispatch EXCEPT
                    ![i].pub = PublishAlertResult(alerts[i].severity, connect, send),
                    ![i].pubOutcome = IF connect = "err" THEN "error"
                                      ELSE IF send = "err" THEN "error"
                                      ELSE IF send = "timeout" THEN "timeout" ELSE "ok"]
       IN /\ dispatch' = ds
          /\ AfterDispatch(ds)
  /\ UNCHANGED <<hreq, hctx, usageTicks, anomalies, alerts, helapsed>>

\* processCriticalAlert of alert i settles: both of its publishes have ended.
NotifySettle(i) ==
  /\ i \in 1..Len(dispatch)
  /\ UNCHANGED nonIngestVars
  /\ dispatch[i].notify = "pending"
  /\ \E cw \in {"ok", "err"}, sns \in {"ok", "err", "skipped"} :
       LET ds == [dispatch EXCEPT ![i].notify = processCriticalAlert(cw, sns).state,
                                  ![i].notifyOk = processCriticalAlert(cw, sns).success]
       IN /\ dispatch' = ds
          /\ AfterDispatch(ds)
  /\ UNCHANGED <<hreq, hctx, usageTicks, anomalies, alerts, helapsed>>

\* The detached chain .then(log result).catch(log error) once the background
\* Promise.all has settled; under AwaitsBackground the handler then returns.
AfterBackground(b) ==
  LET log == IF b.publish = "rejected" \/ b.store = "rejected" THEN "error"
             ELSE IF b.publish = "fulfilled" /\ b.store = "fulfilled" THEN "result"
             ELSE "none"
  IN /\ bg' = [b EXCEPT !.log = IF bg.log # "none" THEN bg.log ELSE log]
     /\ IF hpc = "awaitBg" /\ log # "none"
        THEN /\ hpc' = "responded"
             /\ response' = createSuccessResponse(hreq.body.fields.equipment_id,
                               Len(anomalies), Len(alerts), helapsed)
        ELSE UNCHANGED <<hpc, response>>

\* storeSensorDataMultiTier settles: it returns its outcome, whatever the tiers did.
BgStoreSettle ==
  /\ bg.store = "pending"
  /\ UNCHANGED nonIngestVars
  /\ AfterBackground([bg EXCEPT !.store = "fulfilled"])
  /\ UNCHANGED <<hreq, hctx, usageTicks, anomalies, alerts, dispatch, helapsed>>

\* publishSensorData settles.
BgPublishSettle ==
  /\ bg.publish = "pending"
  /\ UNCHANGED nonIngestVars
  /\ \E connect \in {"ok", "err"}, send \in {"ok", "err"} :
       AfterBackground([bg EXCEPT !.publish =
          IF PublishSensorDataResult(connect, send) = "raised"
          THEN "rejected" ELSE "fulfilled"])
  /\ UNCHANGED <<hreq, hctx, usageTicks, anomalies, alerts, dispatch, helapsed>>

\* 100 ms pass while the handler is suspended.
HandlerTick ==
  /\ hpc \in {"awaitAlerts", "awaitBg"}
  /\ UNCHANGED nonIngestVars
  /\ helapsed + 100 <= MaxHandlerTicks * 100
  /\ helapsed' = helapsed + 100
  /\ UNCHANGED <<hpc, hreq, hctx, usageTicks, anomalies, alerts, dispatch, bg, response>>

IngestNext ==
  \/ hpc = "idle" /\ \E ev \in Events : Receive(ev)
  \/ \E i \in 1..Len(dispatch) : PublishAlertSettle(i)
  \/ \E i \in 1..Len(dispatch) : NotifySettle(i)
  \/ BgStoreSettle
  \/ BgPublishSettle
  \/ HandlerTick

(***************************************************************************)
(*          services/tenantService.ts: TenantResolver.resolveTenant        *)
(***************************************************************************)

MaxResolvers == 2   \* concurrent callers of resolveTenant
MaxTimers == 2      \* eviction timers pending at once

Resolvers == 1..MaxResolvers

\* overLimit: whether the tenant had exhausted its hourly limit when the call
\* arrived.
IdleResolve == [pc |-> "idle", tenant |-> Absent, cached |-> FALSE, overLimit |-> FALSE]

ResolveInit ==
  /\ tenantCache = {}
  /\ rcalls = [p \in Resolvers |-> IdleResolve]
  /\ rtimers = <<>>
  /\ cachedFor = [t \in MockTenants |-> -1]
  /\ exhausted = {}

\* resolveTenant up to its first suspension: no identifier throws, a cached
\* tenant is returned, anything else calls loadTenantConfig and awaits it.
ResolveStart(p, tid) ==
  /\ rcalls[p].pc = "idle"
  /\ UNCHANGED nonResolveVars
  /\ Len(rtimers) < MaxTimers
  /\ rcalls' = [rcalls EXCEPT ![p] =
        [pc |-> IF tid = Absent THEN "failed"
                ELSE IF tid \in tenantCache THEN "done"
                ELSE "loading",
         tenant |-> tid,
         cached |-> tid # Absent /\ tid \in tenantCache,
         overLimit |-> tid \in exhausted]]
  /\ UNCHANGED <<tenantCache, rtimers, cachedFor, exhausted>>

\* The awaited loadTenantConfig settles: an unknown tenant throws; a known one
\* passes validateTenantAccess (which only logs), is cached, and its eviction
\* is scheduled.
ResolveLoaded(p) ==
  /\ rcalls[p].pc = "loading"
  /\ UNCHANGED nonResolveVars
  /\ IF /\ TenantKnown(rcalls[p].tenant)
        /\ validateTenantAccess(rcalls[p].tenant, rcalls[p].overLimit) = "ok"
     THEN /\ CacheSet(rcalls[p].tenant)
          /\ rcalls' = [rcalls EXCEPT ![p].pc = "done"]
     ELSE /\ rcalls' = [rcalls EXCEPT ![p].pc = "failed"]
          /\ UNCHANGED <<tenantCache, rtimers, cachedFor>>
  /\ UNCHANGED exhausted

\* The caller takes the result (or the error); it may call again.
ResolveReturn(p) ==
  /\ rcalls[p].pc \in {"done", "failed"}
  /\ UNCHANGED nonResolveVars
  /\ rcalls' = [rcalls EXCEPT ![p] = IdleResolve]
  /\ UNCHANGED <<tenantCache, rtimers, cachedFor, exhausted>>

\* The oldest eviction timer fires: tenantCache.delete(tenantId).
CacheTimerFire ==
  /\ rtimers # <<>>
  /\ UNCHANGED nonResolveVars
  /\ Head(rtimers).remaining = 0
  /\ tenantCache' = tenantCache \ {Head(rtimers).tenant}
  /\ cachedFor' = [cachedFor EXCEPT ![Head(rtimers).tenant] = -1]
  /\ rtimers' = Tail(rtimers)
  /\ UNCHANGED <<rcalls, exhausted>>

\* 100 s pass; a due timer fires before time moves on.
CacheTick ==
  /\ rtimers # <<>>
  /\ UNCHANGED nonResolveVars
  /\ \A i \in 1..Len(rtimers) : rtimers[i].remaining > 0
  /\ rtimers' = [i \in 1..Len(rtimers) |->
                   [rtimers[i] EXCEPT !.remaining = @ - 100000]]
  /\ cachedFor' = [t \in MockTenants |->
                     IF t \in tenantCache THEN cachedFor[t] + 100000 ELSE cachedFor[t]]
  /\ UNCHANGED <<tenantCache, rcalls, exhausted>>

\* The tenant's requests of the current hour reach features.api_rate_limit (the
\* resolver keeps no count of them), or the hour ends.
LimitReached(t) ==
  /\ t \notin exhausted
  /\ UNCHANGED nonResolveVars
  /\ exhausted' = exhausted \cup {t}
  /\ UNCHANGED <<tenantCache, rcalls, rtimers, cachedFor>>

HourEnds ==
  /\ exhausted # {}
  /\ UNCHANGED nonResolveVars
  /\ exhausted' = {}
  /\ UNCHANGED <<tenantCache, rcalls, rtimers, cachedFor>>

ResolveNext ==
  \/ \E p \in Resolvers, tid \in TenantHeaders : ResolveStart(p, tid)
  \/ \E p \in Resolvers : ResolveLoaded(p)
  \/ \E p \in Resolvers : ResolveReturn(p)
  \/ CacheTimerFire
  \/ CacheTick
  \/ \E t \in MockTenants : LimitReached(t)
  \/ HourEnds

(***************************************************************************)
(*   services/storageService.ts: pools, storeToTimescale, storeToPostgres  *)
(***************************************************************************)

MaxPoolConns == 2    \* connections per pool
MaxStoreCalls == 2   \* requests that store a reading

\* getTenantUsageMetrics: the mockMetrics table.
getTenantUsageMetrics(tid) ==
  IF tid = "acme-corp"
  THEN [dailyDataVolumeGB |-> 150, avgQueriesPerSecond |-> 75, slaViolations |-> 3]
  ELSE IF tid = "shared-tenant"
  THEN [dailyDataVolumeGB |-> 25, avgQueriesPerSecond |-> 15, slaViolations |-> 0]
  ELSE [dailyDataVolumeGB |-> 45, avgQueriesPerSecond |-> 25, slaViolations |-> 1]

DEDICATED_DAILY_GB == 100
DEDICATED_QPS == 50
DEDICATED_SLA_VIOLATIONS == 5

shouldUseDedicatedTimescale(ctx, usage) ==
  \/ usage.dailyDataVolumeGB > DEDICATED_DAILY_GB
  \/ usage.avgQueriesPerSecond > DEDICATED_QPS
  \/ usage.slaViolations > DEDICATED_SLA_VIOLATIONS
  \/ ctx.subscription_tier = "enterprise"

\* Whether getTenantAwareTimescalePool returns the tenant's dedicated pool.
UsesDedicatedPool(ctx) ==
  /\ shouldUseDedicatedTimescale(ctx, getTenantUsageMetrics(ctx.tenant_id))
  /\ ctx.deployment_type = "single-tenant"

\* Pools: the shared hot pool, the shared warm pool, and the dedicated pool of
\* acme-corp (the one directory tenant that qualifies for one).
PoolIds == {"hot", "warm", "acme-corp"}
ConnIds == 1..MaxPoolConns
StoreCalls == 1..MaxStoreCalls

Unset == "unset"
NoQuery == [req |-> 0, kind |-> "none", tenant |-> Absent]

FreshPool == [conns |-> [c \in ConnIds |-> [session |-> Unset, cur |-> NoQuery]],
              queue |-> <<>>]

\* storeToTimescale's INSERT: the number of $n placeholders of the statement text
\* and the number of values passed with it.
HotPlaceholders(ctx) == IF ctx.deployment_type = "multi-tenant" THEN 14 ELSE 13
HotValues == 13

\* storeToPostgres's INSERT: nine placeholders, nine values, no tenant_id column.
WarmPlaceholders == 9
WarmValues == 9

\* The server rejects a statement bound with fewer values than placeholders.
BindOk(placeholders, values) == placeholders = values

\* The tenant_id column of the row a statement inserts: the value bound to the
\* tenant_id placeholder when the statement has one, else NULL.
HotRowTenantId(ctx) ==
  IF ctx.deployment_type = "multi-tenant" /\ HotValues >= 14 THEN ctx.tenant_id ELSE Absent

WarmRowTenantId(ctx) == Absent

PoolInit ==
  /\ pools = [pl \in PoolIds |-> FreshPool]
  /\ tenantPools = {}
  /\ pcalls = [r \in StoreCalls |-> [pc |-> "idle", tenant |-> Absent,
                                     hot |-> "none", warm |-> "none"]]
  /\ executed = {}
  /\ hotRows = {}
  /\ warmRows = {}

\* pool.query(q) on pool state P: an idle connection takes the query at once,
\* else the query waits in the pool's queue.  The set of possible results.
Issue(P, q) ==
  LET idle == {c \in ConnIds : P.conns[c].cur = NoQuery}
  IN IF idle = {}
     THEN {[P EXCEPT !.queue = Append(@, q)]}
     ELSE {[P EXCEPT !.conns[c].cur = q] : c \in idle}

\* Two pool.query calls made back to back, without awaiting the first.
IssueTwo(P, q1, q2) == UNION {Issue(P1, q2) : P1 \in Issue(P, q1)}

SetQuery(r, tid) == [req |-> r, kind |-> "SET", tenant |-> tid]
InsertQuery(r, tid) == [req |-> r, kind |-> "INSERT", tenant |-> tid]

\* getTenantAwareTimescalePool + client.query of storeToTimescale: on the
\* dedicated pool the INSERT alone; on the shared pool the SET (not awaited)
\* and then the INSERT.
HotIssue(ps, r, ctx) ==
  IF UsesDedicatedPool(ctx)
  THEN {[ps EXCEPT ![ctx.tenant_id] = P] :
           P \in Issue(ps[ctx.tenant_id], InsertQuery(r, ctx.tenant_id))}
  ELSE {[ps EXCEPT !["hot"] = P] :
           P \in IssueTwo(ps["hot"], SetQuery(r, ctx.tenant_id), InsertQuery(r, ctx.tenant_id))}

\* getTenantAwarePostgresPool + client.query of storeToPostgres: always the
\* shared pool, the SET (not awaited) and then the INSERT.
WarmIssue(ps, r, ctx) ==
  {[ps EXCEPT !["warm"] = P] :
      P \in IssueTwo(ps["warm"], SetQuery(r, ctx.tenant_id), InsertQuery(r, ctx.tenant_id))}

\* storeSensorDataMultiTier launches storeToTimescale and storeToPostgres for a
\* request of tenant tid; both run to their first await.
StoreLaunch(r, tid) ==
  /\ pcalls[r].pc = "idle"
  /\ UNCHANGED nonPoolVars
  /\ \A q \in StoreCalls : q < r => pcalls[q].pc # "idle"
  /\ LET ctx == TenantContextOf(tid)
     IN /\ \E ps1 \in HotIssue(pools, r, ctx) : \E ps2 \in WarmIssue(ps1, r, ctx) :
             pools' = ps2
        /\ tenantPools' = IF UsesDedicatedPool(ctx)
                          THEN tenantPools \cup {tid} ELSE tenantPools
  /\ pcalls' = [pcalls EXCEPT ![r] = [pc |-> "running", tenant |-> tid,
                                     hot |-> "pending", warm |-> "pending"]]
  /\ UNCHANGED <<executed, hotRows, warmRows>>

\* A connection finishes its statement (res: the server's answer) and goes back
\* to the pool, taking the oldest waiting query if there is one.
ExecDone(pl, c, res) ==
  /\ pools[pl].conns[c].cur # NoQuery
  /\ UNCHANGED nonPoolVars
  /\ LET q == pools[pl].conns[c].cur
         ctx == TenantContextOf(q.tenant)
         session == pools[pl].conns[c].session
         isHot == pl # "warm"
         bound == IF isHot THEN BindOk(HotPlaceholders(ctx), HotValues)
                  ELSE BindOk(WarmPlaceholders, WarmValues)
         ok == res = "ok" /\ (q.kind = "SET" \/ bound)
         next == IF pools[pl].queue = <<>> THEN NoQuery ELSE Head(pools[pl].queue)
     IN /\ pools' = [pools EXCEPT
              ![pl].conns[c] = [session |-> IF q.kind = "SET" /\ ok THEN q.tenant ELSE session,
                                cur |-> next],
              ![pl].queue = IF @ = <<>> THEN @ ELSE Tail(@)]
        /\ executed' = executed \cup
              {[pool |-> pl, kind |-> q.kind, tenant |-> q.tenant, session |-> session]}
        /\ hotRows' = IF q.kind = "INSERT" /\ isHot /\ ok
                      THEN hotRows \cup {[owner |-> q.tenant, tenant_id |-> HotRowTenantId(ctx)]}
                      ELSE hotRows
        /\ warmRows' = IF q.kind = "INSERT" /\ ~isHot /\ ok
                       THEN warmRows \cup {[owner |-> q.tenant, tenant_id |-> WarmRowTenantId(ctx)]}
                       ELSE warmRows
        /\ pcalls' = IF q.kind # "INSERT" THEN pcalls
                     ELSE LET st == IF ok THEN "ok" ELSE "err"
                              call == IF isHot THEN [pcalls[q.req] EXCEPT !.hot = st]
                                      ELSE [pcalls[q.req] EXCEPT !.warm = st]
                          IN [pcalls EXCEPT ![q.req] =
                                [call EXCEPT !.pc = IF call.hot # "pending" /\ call.warm # "pending"
                                                    THEN "done" ELSE "running"]]
        /\ UNCHANGED tenantPools

ExecOk(pl, c) == ExecDone(pl, c, "ok")

ExecError(pl, c) == ExecDone(pl, c, "err")

PoolNext ==
  \/ \E r \in StoreCalls, tid \in MockTenants : StoreLaunch(r, tid)
  \/ \E pl \in PoolIds, c \in ConnIds : ExecOk(pl, c)
  \/ \E pl \in PoolIds, c \in ConnIds : ExecError(pl, c)

(***************************************************************************)
(*        services/storageService.ts: storeSensorDataMultiTier             *)
(***************************************************************************)

MaxFanouts == 2   \* fan-out calls per behaviour, one after the other

SHARED_BUCKET == "up-labs-manufacturing-data"

\* config.storage.s3_bucket of the directory entry (shared-tenant has none).
TenantBucket(tid) ==
  IF tid = "acme-corp" THEN "manufacturing-platform-archival-development-535002890929"
  ELSE Absent

\* TenantConfigService.getStorageConfig
getStorageConfig(ctx) ==
  IF ctx.deployment_type = "single-tenant"
  THEN [bucket |-> TenantBucket(ctx.tenant_id), prefix |-> <<>>]
  ELSE [bucket |-> SHARED_BUCKET, prefix |-> <<"tenants", ctx.tenant_id>>]

\* The bucket archiveToS3 and archiveErrorToS3 choose.
BucketName(ctx) ==
  IF ctx.deployment_type = "single-tenant" /\ getStorageConfig(ctx).bucket # Absent
  THEN getStorageConfig(ctx).bucket
  ELSE SHARED_BUCKET

\* sensorData.facility_id of a fan-out call: absent or given.
Facilities == {Absent, "FAC_001"}

\* new Date(timestamp) read with getFullYear, getMonth() + 1, getDate and
\* getHours, zero-padded (the process runs in UTC); an unparseable timestamp
\* gives NaN in each position.
DateParts(ts) ==
  IF ts = "2025-11-23T10:30:00Z" THEN <<"2025", "11", "23", "10">>
  ELSE <<"NaN", "NaN", "NaN", "NaN">>

\* Variant: the tenant prefix is put before the key in every mode.
KeyPrefix_always(ctx) == <<"tenants", ctx.tenant_id>>
\* The tenant prefix archiveToS3 puts before the key: none for a single-tenant
\* context, storageConfig.prefix otherwise.
KeyPrefix(ctx) ==
  IF ctx.deployment_type = "single-tenant" THEN <<>> ELSE getStorageConfig(ctx).prefix

\* Object keys as paths: the sequence of their segments.
ArchiveKey(ctx, fac, sd) ==
  KeyPrefix(ctx)
  \o <<IF Falsy(fac) THEN "unknown-facility" ELSE fac, sd.equipment_id>>
  \o DateParts(sd.timestamp)
  \o <<sd.timestamp \o ".json">>

ErrorKey(ctx, sd) ==
  (IF ctx.deployment_type = "single-tenant" THEN <<>> ELSE getStorageConfig(ctx).prefix)
  \o <<"errors", IF Falsy(sd.equipment_id) THEN "unknown" ELSE sd.equipment_id>>

\* The object archiveErrorToS3 puts.
ErrorObject(ctx, sd, by) ==
  [bucket |-> BucketName(ctx), key |-> ErrorKey(ctx, sd), processing_failed |-> TRUE,
   tenant |-> ctx.tenant_id, by |-> by, put |-> "pending"]

\* archiveToS3's promise once its put-object has ended: the try returns
\* {success: true}, the catch returns {success: false}.
ArchiveSettled(put) == "fulfilled"

\* storeToTimescale / storeToPostgres: the promise follows the query.
QuerySettled(res) == IF res = "ok" THEN "fulfilled" ELSE "rejected"

\* Variant: only the hot tier's rejection is recorded.
Failures_hotOnly(f) == {t \in {"timescale"} : f[t] = "rejected"}
\* The `failures` list: one entry per rejected promise of Promise.allSettled.
Failures(f) == {t \in {"timescale", "postgres", "s3"} : f[t] = "rejected"}

Tiers == {"timescale", "postgres", "s3"}

\* Variant: the warm and cold writes wait for the hot write.
StartedTiers_hotFirst == {"timescale"}
\* The tier writes storeSensorDataMultiTier starts before it awaits any of
\* them: storeToTimescale, storeToPostgres, archiveToS3.
StartedTiers == {"timescale", "postgres", "s3"}

\* attempts: per tier, how many times its write was started in this call.
IdleFanout ==
  [pc |-> "idle", n |-> 0, tenant |-> Absent, facility |-> Absent,
   attempts |-> [t \in Tiers |-> 0],
   timescale |-> "none", postgres |-> "none", s3 |-> "none", put |-> "none",
   result |-> [timescale |-> FALSE, postgres |-> FALSE, s3 |-> FALSE]]

FanReading == [EmptyObject EXCEPT !.equipment_id = "PUMP_001",
                                  !.timestamp = "2025-11-23T10:30:00Z"]

StoreInit ==
  /\ fan = IdleFanout
  /\ coldPuts = {}
  /\ errorPuts = <<>>

\* storeSensorDataMultiTier(sensorData, tenantContext) up to its await: the
\* three tier writes are started.
FanoutCall(tid, fac) ==
  /\ fan.pc \in {"idle", "returned"}
  /\ UNCHANGED nonStoreVars
  /\ fan.n < MaxFanouts
  /\ \A i \in 1..Len(errorPuts) : errorPuts[i].put # "pending"
  /\ LET st(t) == IF t \in StartedTiers THEN "pending" ELSE "none"
     IN fan' = [IdleFanout EXCEPT !.pc = "running", !.n = fan.n + 1, !.tenant = tid,
                                  !.facility = fac,
                                  !.attempts = [t \in Tiers |->
                                                  IF t \in StartedTiers THEN 1 ELSE 0],
                                  !.timescale = st("timescale"),
                                  !.postgres = st("postgres"),
                                  !.s3 = st("s3"), !.put = st("s3")]
  /\ coldPuts' = {}
  /\ errorPuts' = <<>>

\* Promise.allSettled resolves once the three promises of f have settled: the
\* flags are read off the promises, and any entry in `failures` starts
\* archiveErrorToS3 (not awaited).  eps: the error puts issued so far.
AfterTier(f, eps) ==
  LET ctx == TenantContextOf(f.tenant)
      settled == \A t \in {"timescale", "postgres", "s3"} : f[t] # "pending"
  IN IF ~settled
     THEN /\ fan' = f
          /\ errorPuts' = eps
     ELSE /\ fan' = [f EXCEPT !.pc = "returned",
                              !.result = [timescale |-> f.timescale = "fulfilled",
                                          postgres |-> f.postgres = "fulfilled",
                                          s3 |-> f.s3 = "fulfilled"]]
          /\ errorPuts' = IF Failures(f) # {}
                          THEN Append(eps, ErrorObject(ctx, FanReading, "fanout"))
                          ELSE eps

\* The hot-tier INSERT ends.  In shared mode the statement is bound with 13
\* values for 14 placeholders, so the server rejects it.
TimescaleSettle(res) ==
  /\ fan.timescale = "pending"
  /\ UNCHANGED nonStoreVars
  /\ LET ctx == TenantContextOf(fan.tenant)
         r == IF BindOk(HotPlaceholders(ctx), HotValues) THEN res ELSE "err"
     IN AfterTier([fan EXCEPT !.timescale = QuerySettled(r)], errorPuts)
  /\ UNCHANGED coldPuts

\* The warm-tier INSERT ends.
PostgresSettle(res) ==
  /\ fan.postgres = "pending"
  /\ UNCHANGED nonStoreVars
  /\ AfterTier([fan EXCEPT !.postgres = QuerySettled(res)], errorPuts)
  /\ UNCHANGED coldPuts

\* archiveToS3's put-object ends: on success the object is stored; on failure the
\* catch block starts archiveErrorToS3 (not awaited) and returns.
S3PutSettle(res) ==
  /\ fan.put = "pending"
  /\ UNCHANGED nonStoreVars
  /\ LET ctx == TenantContextOf(fan.tenant)
         eps == IF res = "ok" THEN errorPuts
                ELSE Append(errorPuts, ErrorObject(ctx, FanReading, "archiveToS3"))
     IN /\ AfterTier([fan EXCEPT !.put = res, !.s3 = ArchiveSettled(res)], eps)
        /\ coldPuts' = IF res = "ok"
                       THEN coldPuts \cup {[bucket |-> BucketName(ctx),
                                            key |-> ArchiveKey(ctx, fan.facility, FanReading)]}
                       ELSE coldPuts

\* An error-location put ends; archiveErrorToS3 returns its outcome either way.
ErrorPutSettle(i, res) ==
  /\ i \in 1..Len(errorPuts)
  /\ UNCHANGED nonStoreVars
  /\ errorPuts[i].put = "pending"
  /\ errorPuts' = [errorPuts EXCEPT ![i].put = res]
  /\ UNCHANGED <<fan, coldPuts>>

StoreNext ==
  \/ \E tid \in MockTenants, fac \in Facilities : FanoutCall(tid, fac)
  \/ \E res \in {"ok", "err"} : TimescaleSettle(res)
  \/ \E res \in {"ok", "err"} : PostgresSettle(res)
  \/ \E res \in {"ok", "err"} : S3PutSettle(res)
  \/ \E i \in 1..Len(errorPuts), res \in {"ok", "err"} : ErrorPutSettle(i, res)

(***************************************************************************)
(*        services/tenantService.ts: detectAnomalies, called directly      *)
(***************************************************************************)

\* Readings around every threshold (vibration in tenths).
DetectTemps == {Undefined} \cup {Num(n) : n \in {-1, 0, 75, 150, 151, 180, 181}}
DetectVibs == {Undefined} \cup {Num(n) : n \in {0, 20, 21, 50, 51}}
DetectPres == {Undefined} \cup {Num(n) : n \in {49, 50, 500, 501, 800, 801}}

DetectReadings == [equipment_id : {"PUMP_001"}, timestamp : {"2025-11-23T10:30:00Z"},
                   temperature : DetectTemps, vibration : DetectVibs, pressure : DetectPres]

DetectInit ==
  /\ detIn = EmptyObject
  /\ detOut = <<>>

\* detectAnomalies(sensorData)
DetectCall(sd) ==
  /\ UNCHANGED nonDetectVars
  /\ detIn' = sd
  /\ detOut' = detectAnomalies(sd)

DetectNext == \E sd \in DetectReadings : DetectCall(sd)

(***************************************************************************)
(*        services/tenantService.ts: TenantResolver.extractTenantId        *)
(***************************************************************************)

\* The tenant header as the client spelled it.
TenantHeaderNames == {"X-Tenant-ID", "x-tenant-id", "X-TENANT-ID"}

\* Authorization values: a bearer token whose payload has a tenant_id claim, one
\* whose payload has none, and text that is no token.
BearerTokens == {[kind |-> "claim", tenant_id |-> t] : t \in MockTenants}
                \cup {[kind |-> k, tenant_id |-> Absent] : k \in {"noclaim", "garbage"}}

NoAuthorization == [kind |-> "absent", tenant_id |-> Absent]

\* Host values, as their labels.
Hosts == {<<t, "manufacturing", "com">> : t \in MockTenants}
         \cup {<<"manufacturing", "com">>, <<"plant", "example", "com">>}

\* X-API-Key values, as the pieces between underscores.
ApiKeys == {<<t, "uuid", "random">> : t \in MockTenants} \cup {<<"keywithoutunderscore">>}

NoHeader == [name |-> Absent, value |-> Absent]

ExtractEvents ==
  [tenantHeader : {NoHeader} \cup [name : TenantHeaderNames, value : MockTenants],
   authorization : {NoAuthorization} \cup BearerTokens,
   host : {<<>>} \cup Hosts,
   query : {Absent} \cup MockTenants,
   apiKey : {<<>>} \cup ApiKeys]

NoEvent == [tenantHeader |-> NoHeader, authorization |-> NoAuthorization, host |-> <<>>,
            query |-> Absent, apiKey |-> <<>>]

\* event.headers?.[name] for the tenant header.
HeaderValue(ev, name) ==
  IF ev.tenantHeader.name = name THEN ev.tenantHeader.value ELSE Absent

\* extractFromJWT: the payload's tenant_id, or null (also when decoding throws).
extractFromJWT(auth) == IF auth.kind = "claim" THEN auth.tenant_id ELSE Absent

\* extractFromSubdomain
extractFromSubdomain(host) ==
  IF Len(host) >= 3 /\ host[2] = "manufacturing" THEN host[1] ELSE Absent

\* extractFromApiKey
extractFromApiKey(key) == IF Len(key) >= 2 THEN key[1] ELSE Absent

\* The tail of extractTenantId, from the Authorization header on.
ExtractAfterHeader(ev) ==
  IF ev.authorization # NoAuthorization /\ extractFromJWT(ev.authorization) # Absent
  THEN extractFromJWT(ev.authorization)
  ELSE IF ev.host # <<>> /\ extractFromSubdomain(ev.host) # Absent
  THEN extractFromSubdomain(ev.host)
  ELSE IF ev.query # Absent
  THEN ev.query
  ELSE IF ev.apiKey # <<>>
  THEN extractFromApiKey(ev.apiKey)
  ELSE Absent

\* extractTenantId
extractTenantId(ev) ==
  IF HeaderValue(ev, "X-Tenant-ID") # Absent THEN HeaderValue(ev, "X-Tenant-ID")
  ELSE IF HeaderValue(ev, "x-tenant-id") # Absent THEN HeaderValue(ev, "x-tenant-id")
  ELSE ExtractAfterHeader(ev)

ExtractInit ==
  /\ exIn = NoEvent
  /\ exOut = Absent

\* extractTenantId(event) is called and returns.
ExtractCall(ev) ==
  /\ exIn = NoEvent
  /\ UNCHANGED nonExtractVars
  /\ exIn' = ev
  /\ exOut' = extractTenantId(ev)

\* The caller is done with the result.
ExtractDone ==
  /\ exIn # NoEvent
  /\ UNCHANGED nonExtractVars
  /\ exIn' = NoEvent
  /\ exOut' = Absent

ExtractNext ==
  \/ \E ev \in ExtractEvents : ExtractCall(ev)
  \/ ExtractDone

(***************************************************************************)
(*   handler.ts (enrichment) + storageService.ts (storeToTimescale,        *)
(*   storeToPostgres): the rows written for a body, and for it again       *)
(***************************************************************************)

MaxUpClock == 3      \* clock steps per behaviour
MaxUpRequests == 3   \* requests stored per behaviour, one after the other

\* Two bodies for the same equipment and timestamp, the second with an anomaly.
UpBodies == {[EmptyObject EXCEPT !.equipment_id = "PUMP_001",
                                 !.timestamp = "2025-11-23T10:30:00Z",
                                 !.temperature = Num(t)] : t \in {75, 205}}

NoUpRequest == [pc |-> "idle", tenant |-> Absent, body |-> EmptyObject,
                ingestionTimestamp |-> -1, hot |-> "none", warm |-> "none"]

NoSnapshot == [tenant |-> Absent, body |-> EmptyObject, hot |-> {}, warm |-> {}]

\* The row storeToTimescale binds: $1..$13 (the measurement columns stand for
\* temperature, vibration, pressure, power_consumption and custom_metrics).
HotRow(req) ==
  [time |-> req.body.timestamp, equipment_id |-> req.body.equipment_id,
   temperature |-> req.body.temperature,
   ingestion_timestamp |-> req.ingestionTimestamp,
   source |-> "iot-webhook",
   has_anomalies |-> detectAnomalies(req.body) # <<>>]

\* Variant: a conflict target that includes the ingestion time.
HotConflictKey_withIngestion(row) == <<row.time, row.equipment_id, row.ingestion_timestamp>>
\* ON CONFLICT (time, equipment_id)
HotConflictKey(row) == <<row.time, row.equipment_id>>

\* DO UPDATE SET temperature, vibration, pressure, power_consumption,
\* custom_metrics, ingestion_timestamp = EXCLUDED.*
HotUpdate(old, new) ==
  [old EXCEPT !.temperature = new.temperature,
              !.ingestion_timestamp = new.ingestion_timestamp]

\* The row storeToPostgres binds; updated_at is new Date() at the call.
WarmRow(req, now) ==
  [equipment_id |-> req.body.equipment_id, last_seen |-> req.body.timestamp,
   current_temperature |-> req.body.temperature, status |-> "online",
   updated_at |-> now]

\* ON CONFLICT (equipment_id)
WarmConflictKey(row) == row.equipment_id

\* DO UPDATE SET last_seen, current_temperature, current_vibration,
\* current_pressure, updated_at = EXCLUDED.*
WarmUpdate(old, new) ==
  [old EXCEPT !.last_seen = new.last_seen,
              !.current_temperature = new.current_temperature,
              !.updated_at = new.updated_at]

UpsertInit ==
  /\ upClock = 0
  /\ upReq = NoUpRequest
  /\ upCount = 0
  /\ upHot = {}
  /\ upWarm = {}
  /\ upOnce = NoSnapshot

\* A request arrives once the previous one's writes have completed: the handler
\* enriches the body with ingestionTimestamp = new Date() and starts the writes.
UpArrive(tid, body) ==
  /\ upReq.pc \in {"idle", "done"}
  /\ UNCHANGED nonUpsertVars
  /\ upCount < MaxUpRequests
  /\ upCount' = upCount + 1
  /\ upReq' = [pc |-> "storing", tenant |-> tid, body |-> body,
               ingestionTimestamp |-> upClock, hot |-> "pending", warm |-> "pending"]
  /\ upOnce' = IF upReq.pc = "done"
               THEN [tenant |-> upReq.tenant, body |-> upReq.body,
                     hot |-> upHot, warm |-> upWarm]
               ELSE upOnce
  /\ UNCHANGED <<upClock, upHot, upWarm>>

\* The request's state once a write has ended.
UpAfterWrite(req) ==
  IF req.hot # "pending" /\ req.warm # "pending" THEN [req EXCEPT !.pc = "done"] ELSE req

\* storeToTimescale's statement runs: an upsert on the tenant's dedicated
\* database; on the shared one it is rejected at bind (13 values, 14 placeholders).
UpHotWrite ==
  /\ upReq.hot = "pending"
  /\ UNCHANGED nonUpsertVars
  /\ LET ctx == TenantContextOf(upReq.tenant)
         new == HotRow(upReq)
         hit == {r \in upHot : HotConflictKey(r) = HotConflictKey(new)}
     IN IF UsesDedicatedPool(ctx) /\ BindOk(HotPlaceholders(ctx), HotValues)
        THEN /\ upHot' = IF hit = {} THEN upHot \cup {new}
                         ELSE (upHot \ hit) \cup {HotUpdate(r, new) : r \in hit}
             /\ upReq' = UpAfterWrite([upReq EXCEPT !.hot = "ok"])
        ELSE /\ upHot' = upHot
             /\ upReq' = UpAfterWrite([upReq EXCEPT !.hot = "err"])
  /\ UNCHANGED <<upClock, upCount, upWarm, upOnce>>

\* storeToPostgres's statement runs: an upsert on the shared database.
UpWarmWrite ==
  /\ upReq.warm = "pending"
  /\ UNCHANGED nonUpsertVars
  /\ LET new == WarmRow(upReq, upClock)
         hit == {r \in upWarm : WarmConflictKey(r) = WarmConflictKey(new)}
     IN upWarm' = IF hit = {} THEN upWarm \cup {new}
                  ELSE (upWarm \ hit) \cup {WarmUpdate(r, new) : r \in hit}
  /\ upReq' = UpAfterWrite([upReq EXCEPT !.warm = "ok"])
  /\ UNCHANGED <<upClock, upCount, upHot, upOnce>>

\* The clock advances.
UpTick ==
  /\ upClock < MaxUpClock
  /\ UNCHANGED nonUpsertVars
  /\ upClock' = upClock + 1
  /\ UNCHANGED <<upReq, upCount, upHot, upWarm, upOnce>>

UpsertNext ==
  \/ \E tid \in MockTenants, body \in UpBodies : UpArrive(tid, body)
  \/ UpHotWrite
  \/ UpWarmWrite
  \/ UpTick

(***************************************************************************)
(*   storageService.ts: shouldUseDedicatedTimescale and                    *)
(*   getTenantAwareTimescalePool over a sequence of calls                  *)
(***************************************************************************)

MaxSelectCalls == 3   \* calls per behaviour

\* Tenant ids: the two with usage metrics of their own and one that reads the
\* default metrics.
SelTenants == {"acme-corp", "shared-tenant", "other-tenant"}

SelContexts == [tenant_id : SelTenants,
                deployment_type : {"single-tenant", "multi-tenant"},
                subscription_tier : {"professional", "enterprise"}]

\* Usage metrics on either side of each threshold.
SelUsages == [dailyDataVolumeGB : {100, 101}, avgQueriesPerSecond : {50, 51},
              slaViolations : {5, 6}]

SHARED_POOL == <<"shared">>
DedicatedPool(tid) == <<"dedicated", tid>>

NoSelection == [ctx |-> NoContext, usage |-> getTenantUsageMetrics(Absent),
                pool |-> <<>>, constructed |-> FALSE]
NoDecision == [tier |-> Absent, usage |-> getTenantUsageMetrics(Absent), needs |-> FALSE]

SelectInit ==
  /\ selCreated = [t \in SelTenants |-> 0]
  /\ selMap = {}
  /\ selOut = NoSelection
  /\ selDecide = NoDecision
  /\ selN = 0

\* Variant: the pool is constructed on every call.
PoolMissing_always(map, tid) == TRUE
\* !tenantPools.has(tenantId)
PoolMissing(map, tid) == tid \notin map

\* getTenantAwareTimescalePool(tenantContext): the dedicated pool of the
\* tenant, constructed when the map has none, or the shared pool.
getTenantAwareTimescalePool(ctx) ==
  /\ selN < MaxSelectCalls
  /\ UNCHANGED nonSelectVars
  /\ selN' = selN + 1
  /\ LET tid == ctx.tenant_id
         usage == getTenantUsageMetrics(tid)
     IN IF UsesDedicatedPool(ctx)
        THEN /\ selCreated' = IF PoolMissing(selMap, tid)
                              THEN [selCreated EXCEPT ![tid] = @ + 1] ELSE selCreated
             /\ selMap' = selMap \cup {tid}
             /\ selOut' = [ctx |-> ctx, usage |-> usage, pool |-> DedicatedPool(tid),
                           constructed |-> PoolMissing(selMap, tid)]
        ELSE /\ UNCHANGED <<selCreated, selMap>>
             /\ selOut' = [ctx |-> ctx, usage |-> usage, pool |-> SHARED_POOL,
                           constructed |-> FALSE]
  /\ UNCHANGED selDecide

\* shouldUseDedicatedTimescale applied to a context and usage metrics.
ShouldUseDedicatedCall(ctx, usage) ==
  /\ selN < MaxSelectCalls
  /\ UNCHANGED nonSelectVars
  /\ selN' = selN + 1
  /\ selDecide' = [tier |-> ctx.subscription_tier, usage |-> usage,
                   needs |-> shouldUseDedicatedTimescale(ctx, usage)]
  /\ UNCHANGED <<selCreated, selMap, selOut>>

SelectNext ==
  \/ \E ctx \in SelContexts : getTenantAwareTimescalePool(ctx)
  \/ \E ctx \in SelContexts, usage \in SelUsages : ShouldUseDedicatedCall(ctx, usage)

(***************************************************************************)
(*   alertNotificationService.ts: processCriticalAlert with its two        *)
(*   channels, publishToCloudWatch and sendSNSNotification                 *)
(***************************************************************************)

MaxNotifyCalls == 3   \* processCriticalAlert calls per behaviour

\* config.alerts.sns_topics of the directory entries.
SnsTopics(tid) ==
  IF tid = "acme-corp" THEN {"arn:aws:sns:us-east-1:123456789012:acme-critical-alerts"}
  ELSE IF tid = "shared-tenant" THEN {"arn:aws:sns:us-east-1:123456789012:shared-alerts"}
  ELSE {}

\* Values of the topic ARN in the process environment: unset, a platform-wide
\* topic, or the topic of one tenant.
EnvTopics == {Absent, "arn:aws:sns:us-east-1:123456789012:critical-alerts",
              "arn:aws:sns:us-east-1:123456789012:acme-critical-alerts"}

Unread == "unread"

IdleNotify == [pc |-> "idle", n |-> 0, tenant |-> Absent, cw |-> "none", sns |-> "none"]

NoNotifyResult == [processCriticalAlert("err", "err") EXCEPT !.state = "none"]

NotifyInit ==
  /\ nEnvTopic = Unread
  /\ nCall = IdleNotify
  /\ nSent = {}
  /\ nResult = NoNotifyResult

\* processCriticalAlert(alert, anomaly) for an alert of a request of tenant tid,
\* up to its await: publishToCloudWatch has sent its command; sendSNSNotification
\* has read the topic ARN from the environment and either returned (no ARN) or
\* sent its publish command.
ProcessCriticalAlertCall(tid, env) ==
  /\ nCall.pc \in {"idle", "resolved"}
  /\ UNCHANGED nonNotifyVars
  /\ nCall.n < MaxNotifyCalls
  /\ nEnvTopic \in {Unread, env}
  /\ nEnvTopic' = env
  /\ nCall' = [pc |-> "running", n |-> nCall.n + 1, tenant |-> tid, cw |-> "pending",
               sns |-> IF env = Absent THEN "skipped" ELSE "pending"]
  /\ UNCHANGED <<nSent, nResult>>

\* Promise.allSettled of the two channels in call c: once both have settled
\* the call resolves with its outcome.
AfterChannel(c) ==
  IF c.cw = "pending" \/ c.sns = "pending"
  THEN /\ nCall' = c
       /\ UNCHANGED nResult
  ELSE /\ nCall' = [c EXCEPT !.pc = processCriticalAlert(c.cw, c.sns).state]
       /\ nResult' = processCriticalAlert(c.cw, c.sns)

\* cloudWatchClient.send ends.
CloudWatchSettle(res) ==
  /\ nCall.cw = "pending"
  /\ UNCHANGED nonNotifyVars
  /\ AfterChannel([nCall EXCEPT !.cw = res])
  /\ UNCHANGED <<nEnvTopic, nSent>>

\* snsClient.send ends: on success the notification is on the topic.
SnsSettle(res) ==
  /\ nCall.sns = "pending"
  /\ UNCHANGED nonNotifyVars
  /\ AfterChannel([nCall EXCEPT !.sns = res])
  /\ nSent' = IF res = "ok"
              THEN nSent \cup {[topic |-> nEnvTopic, tenant |-> nCall.tenant, n |-> nCall.n]}
              ELSE nSent
  /\ UNCHANGED nEnvTopic

NotifyNext ==
  \/ \E tid \in MockTenants, env \in EnvTopics : ProcessCriticalAlertCall(tid, env)
  \/ \E res \in {"ok", "err"} : CloudWatchSettle(res)
  \/ \E res \in {"ok", "err"} : SnsSettle(res)

(***************************************************************************)
(*   lambdas/getEquipmentStatus/handler.ts, getEquipmentMetrics/handler.ts *)
(*   and storageService.getRecentSensorData: the query operations          *)
(***************************************************************************)

MaxQueries == 3   \* query operations per behaviour, one after the other

\* event.pathParameters?.id
PathIds == {Absent, "PUMP_001"}

\* op: which operation; ctx: the tenant context it resolved (NoContext if it
\* resolved none); ticks: TenantMetricsService.trackUsage calls it made;
\* reads: store reads it started; blind: store reads it started with no tenant
\* context resolved; status: the HTTP status it answered, 0 if none.
IdleQuery == [op |-> "none", pc |-> "idle", ctx |-> NoContext, ticks |-> 0,
              reads |-> 0, blind |-> 0, status |-> 0]

QueryInit ==
  /\ qReq = IdleQuery
  /\ qN = 0

QueryFree == qReq.pc \in {"idle", "done", "rejected"} /\ qN < MaxQueries

\* getEquipmentStatus handler up to its await: without an id it answers 400;
\* else it starts getEquipmentById and getRecentSensorReadings.
StatusRequest(tid, id) ==
  /\ QueryFree
  /\ UNCHANGED nonQueryVars
  /\ qN' = qN + 1
  /\ qReq' = IF Falsy(id)
             THEN [IdleQuery EXCEPT !.op = "status", !.pc = "done", !.status = 400]
             ELSE [IdleQuery EXCEPT !.op = "status", !.pc = "reading",
                                    !.reads = 2, !.blind = 2]

\* getEquipmentMetrics handler up to its first store read: withTenantContext
\* resolves the tenant (a failure rejects the handler's promise), trackUsage,
\* then 400 without an id, else getEquipmentMetrics is started.
MetricsRequest(tid, id) ==
  /\ QueryFree
  /\ UNCHANGED <<kafkaVars, ingestVars, poolVars, storeVars, detectVars, extractVars,
                 upsertVars, selectVars, notifyVars, limitVars, archiveVars, contextVars, healthVars>>
  /\ ResolveEffect(tid)
  /\ qN' = qN + 1
  /\ qReq' = IF ~Resolves(tid)
             THEN [IdleQuery EXCEPT !.op = "metrics", !.pc = "rejected"]
             ELSE IF Falsy(id)
             THEN [IdleQuery EXCEPT !.op = "metrics", !.pc = "done",
                                    !.ctx = TenantContextOf(tid), !.ticks = 1,
                                    !.status = 400]
             ELSE [IdleQuery EXCEPT !.op = "metrics", !.pc = "reading",
                                    !.ctx = TenantContextOf(tid), !.ticks = 1,
                                    !.reads = 1]

\* getRecentSensorData(equipmentId, hours, tenantContext) up to its await: it
\* picks the pool for the context it was handed, if any, and starts the query.
RecentReadingsCall(ctx) ==
  /\ QueryFree
  /\ UNCHANGED nonQueryVars
  /\ qN' = qN + 1
  /\ qReq' = [IdleQuery EXCEPT !.op = "recent", !.pc = "reading", !.ctx = ctx,
                               !.reads = 1,
                               !.blind = IF ctx = NoContext THEN 1 ELSE 0]

\* The store reads of the query end: found, nothing found, or an error.
QueryReadSettle(res) ==
  /\ qReq.pc = "reading"
  /\ UNCHANGED nonQueryVars
  /\ qReq' = [qReq EXCEPT !.pc = "done",
                          !.status = IF qReq.op = "recent" THEN 0
                                     ELSE IF res = "err" THEN 500
                                     ELSE IF res = "none" /\ qReq.op = "status" THEN 404
                                     ELSE 200]
  /\ UNCHANGED qN

QueryNext ==
  \/ \E tid \in TenantHeaders, id \in PathIds : StatusRequest(tid, id)
  \/ \E tid \in TenantHeaders, id \in PathIds : MetricsRequest(tid, id)
  \/ \E ctx \in {NoContext} \cup {TenantContextOf(t) : t \in MockTenants} :
        RecentReadingsCall(ctx)
  \/ \E res \in {"found", "none", "err"} : QueryReadSettle(res)

(***************************************************************************)
(*   tenantService.ts: TenantMetricsService.checkLimits                    *)
(***************************************************************************)

\* max_equipment, config.features.api_rate_limit and
\* config.features.concurrent_users of the directory entries.
TenantLimits(tid) ==
  IF tid = "acme-corp"
  THEN [max_equipment |-> 10000, api_rate_limit |-> 10000, concurrent_users |-> 100]
  ELSE [max_equipment |-> 100, api_rate_limit |-> 1000, concurrent_users |-> 10]

LimitOperations == {"equipment-count", "api-requests-per-hour", "concurrent-users",
                    "unknown-operation"}

\* Values below, at and above each limit.
LimitValues == UNION {{n - 1, n, n + 1} : n \in {10, 100, 1000, 10000}} \cup {0}

\* limits[operation]: undefined (here 0, equally falsy) for an operation that
\* is not a key.
LimitFor(tid, operation) ==
  IF operation = "equipment-count" THEN TenantLimits(tid).max_equipment
  ELSE IF operation = "api-requests-per-hour" THEN TenantLimits(tid).api_rate_limit
  ELSE IF operation = "concurrent-users" THEN TenantLimits(tid).concurrent_users
  ELSE 0

\* Variant: only a value above the limit is refused.
checkLimits_strict(tid, operation, currentValue) ==
  ~(LimitFor(tid, operation) # 0 /\ currentValue > LimitFor(tid, operation))
\* `if (limit && currentValue >= limit) return false; return true`.
checkLimits(tid, operation, currentValue) ==
  ~(LimitFor(tid, operation) # 0 /\ currentValue >= LimitFor(tid, operation))

NoLimitCall == [tenant |-> Absent, operation |-> Absent, value |-> 0]

LimitInit ==
  /\ limIn = NoLimitCall
  /\ limOut = TRUE

CheckLimitsCall(tid, operation, value) ==
  /\ UNCHANGED nonLimitVars
  /\ limIn' = [tenant |-> tid, operation |-> operation, value |-> value]
  /\ limOut' = checkLimits(tid, operation, value)

LimitNext ==
  \E tid \in MockTenants, operation \in LimitOperations, value \in LimitValues :
     CheckLimitsCall(tid, operation, value)

(***************************************************************************)
(*   storageService.ts: archiveToS3 and archiveErrorToS3, any context      *)
(***************************************************************************)

MaxArchives == 2   \* archiveToS3 calls per behaviour

\* Tenants whose readings are archived: the two directory entries and two
\* provisioned ones whose config.storage.s3_bucket is undefined.
ArchTenants == {"acme-corp", "shared-tenant", "plant-a", "plant-b"}

\* The contexts archiveToS3 can be handed for a reading of tenant tid: the
\* directory's context, a provisioned tenant's context in either deployment
\* mode, or none (the parameter is optional).
ArchContexts(tid) ==
  {NoContext}
  \cup (IF tid \in MockTenants THEN {TenantContextOf(tid)}
        ELSE {[tenant_id |-> tid, deployment_type |-> dt, subscription_tier |-> "professional"]
                : dt \in {"single-tenant", "multi-tenant"}})

\* Date.now() of an error put, as it is printed in the key.
ArchNows == {"1763893800000", "1763893800001"}

\* The key archiveErrorToS3 builds: the error root, then the date parts of
\* `new Date()` and <equipment_id>-<Date.now()>.json (here the instant stands
\* for both).
ErrorObjectKey(ctx, sd, now) == ErrorKey(ctx, sd) \o <<now>>

ArchiveInit ==
  /\ archObjs = {}
  /\ archN = 0

\* archiveToS3(sensorData, tenantContext) for a reading of tenant owner, to the
\* end of its put-object: the object is stored, or the put fails and the catch
\* block runs archiveErrorToS3, which puts the reading at the error location.
ArchiveToS3Call(owner, ctx, fac, res, now) ==
  /\ archN < MaxArchives
  /\ UNCHANGED nonArchiveVars
  /\ archN' = archN + 1
  /\ archObjs' = archObjs \cup
       {IF res = "ok"
        THEN [bucket |-> BucketName(ctx), key |-> ArchiveKey(ctx, fac, FanReading),
              owner |-> owner, error |-> FALSE]
        ELSE [bucket |-> BucketName(ctx), key |-> ErrorObjectKey(ctx, FanReading, now),
              owner |-> owner, error |-> TRUE]}

ArchivePutOk ==
  \E owner \in ArchTenants : \E ctx \in ArchContexts(owner), fac \in Facilities :
     ArchiveToS3Call(owner, ctx, fac, "ok", Absent)

ArchivePutFails ==
  \E owner \in ArchTenants : \E ctx \in ArchContexts(owner), now \in ArchNows :
     ArchiveToS3Call(owner, ctx, Absent, "err", now)

ArchiveNext ==
  \/ ArchivePutOk
  \/ ArchivePutFails

(***************************************************************************)
(*   tenantService.ts: withTenantContext, requests sharing a process       *)
(***************************************************************************)

MaxCtxRequests == 3   \* requests in flight in one process

CtxIds == 1..MaxCtxRequests

\* X-Tenant-ID of a request: a directory tenant or an unknown one.
CtxTenants == MockTenants \cup {"ghost-tenant"}

EnvOf(ctx) == [CURRENT_TENANT_ID |-> ctx.tenant_id,
               CURRENT_DEPLOYMENT_TYPE |-> ctx.deployment_type]

\* pc: idle, resolving (at `await resolver.resolveTenant(event)`), body (the
\* handler was called and has not settled), done, rejected; seen: the two
\* variables as the body read them when it last ran.
IdleCtxRequest == [pc |-> "idle", tenant |-> Absent, seen |-> EnvOf(NoContext)]

ContextInit ==
  /\ processEnv = EnvOf(NoContext)
  /\ wreqs = [r \in CtxIds |-> IdleCtxRequest]

\* withTenantContext(event, handler) up to its await.
WithTenantContextCall(r, tid) ==
  /\ wreqs[r].pc = "idle"
  /\ UNCHANGED nonContextVars
  /\ \A q \in CtxIds : q < r => wreqs[q].pc # "idle"
  /\ wreqs' = [wreqs EXCEPT ![r] = [IdleCtxRequest EXCEPT !.pc = "resolving", !.tenant = tid]]
  /\ UNCHANGED processEnv

\* resolveTenant settles.  Rejected: withTenantContext rejects.  Resolved: the
\* two variables are assigned and the handler is called, which runs to its
\* first await.
ResolveTenantSettle(r) ==
  /\ wreqs[r].pc = "resolving"
  /\ UNCHANGED <<kafkaVars, ingestVars, poolVars, storeVars, detectVars, extractVars,
                 upsertVars, selectVars, notifyVars, queryVars, limitVars, archiveVars,
                 healthVars>>
  /\ ResolveEffect(wreqs[r].tenant)
  /\ IF Resolves(wreqs[r].tenant)
     THEN /\ processEnv' = EnvOf(TenantContextOf(wreqs[r].tenant))
          /\ wreqs' = [wreqs EXCEPT ![r].pc = "body",
                                    ![r].seen = EnvOf(TenantContextOf(wreqs[r].tenant))]
     ELSE /\ wreqs' = [wreqs EXCEPT ![r].pc = "rejected"]
          /\ UNCHANGED processEnv

\* The handler body resumes after an await and runs to its next one: what it
\* reads of process.env is what is there now.
BodyResume(r) ==
  /\ wreqs[r].pc = "body"
  /\ UNCHANGED nonContextVars
  /\ wreqs' = [wreqs EXCEPT ![r].seen = processEnv]
  /\ UNCHANGED processEnv

\* The handler body resumes for the last time and settles; the variables are
\* left as they are.
BodyEnd(r) ==
  /\ wreqs[r].pc = "body"
  /\ UNCHANGED nonContextVars
  /\ wreqs' = [wreqs EXCEPT ![r].pc = "done", ![r].seen = processEnv]
  /\ UNCHANGED processEnv

ContextNext ==
  \/ \E r \in CtxIds, tid \in CtxTenants : WithTenantContextCall(r, tid)
  \/ \E r \in CtxIds : ResolveTenantSettle(r)
  \/ \E r \in CtxIds : BodyResume(r)
  \/ \E r \in CtxIds : BodyEnd(r)

(***************************************************************************)
(*   lambdas/getEquipmentStatus/handler.ts: determineHealthStatus          *)
(***************************************************************************)

\* equipment.status
EquipmentStatuses == {"online", "offline", "error", "maintenance"}

\* recentReadings[0] || null
NoReading == [temperature |-> Undefined, vibration |-> Undefined, pressure |-> Undefined,
              present |-> FALSE]

\* Latest readings: each metric below, between and above the handler's bounds
\* (vibration in tenths), temperature also missing.
LatestReadings ==
  [temperature : {Undefined, Num(100), Num(160), Num(190)},
   vibration : {Num(10), Num(30), Num(60)},
   pressure : {Num(40), Num(100), Num(600), Num(900)},
   present : {TRUE}]

\* Whole minutes between the latest reading and now.
ReadingAges == {0, 1, 59, 60, 61}

\* lastReadingAge: null without a reading, else
\* Math.floor((Date.now() - timestamp) / 60000).
LastReadingAge(reading, minutes) == IF reading.present THEN Num(minutes) ELSE Undefined

\* !lastReadingAge: null and 0 are both falsy.
AgeFalsy(age) == ~age.def \/ age.v = 0

\* x !== undefined && x > n
Above(x, n) == x.def /\ x.v > n
\* x !== undefined && x < n
Below(x, n) == x.def /\ x.v < n

hasWarnings(r) ==
  \/ Above(r.temperature, 150)
  \/ Above(r.vibration, 20)
  \/ Above(r.pressure, 500) \/ Below(r.pressure, 50)

hasCritical(r) ==
  \/ Above(r.temperature, 180)
  \/ Above(r.vibration, 50)
  \/ Above(r.pressure, 800)

determineHealthStatus(status, currentReading, lastReadingAge) ==
  IF status = "offline" \/ status = "error" THEN "offline"
  ELSE IF ~currentReading.present \/ AgeFalsy(lastReadingAge) \/ lastReadingAge.v > 60
  THEN "offline"
  ELSE IF hasCritical(currentReading) THEN "critical"
  ELSE IF hasWarnings(currentReading) THEN "warning"
  ELSE "healthy"

NoHealthCall == [status |-> Absent, reading |-> NoReading, age |-> Undefined]

HealthInit ==
  /\ hsIn = NoHealthCall
  /\ hsOut = Absent

\* The status summary of one request: the age is computed from the latest
\* reading, then determineHealthStatus is applied.
StatusSummary(status, reading, minutes) ==
  /\ UNCHANGED nonHealthVars
  /\ hsIn' = [status |-> status, reading |-> reading,
              age |-> LastReadingAge(reading, minutes)]
  /\ hsOut' = determineHealthStatus(status, reading, LastReadingAge(reading, minutes))

HealthNext ==
  \E status \in EquipmentStatuses, reading \in LatestReadings \cup {NoReading},
     minutes \in ReadingAges :
     StatusSummary(status, reading, minutes)

(***************************************************************************)
(*                          Specifications                                 *)
(***************************************************************************)

Init == KafkaInit /\ IngestInit /\ ResolveInit /\ PoolInit /\ StoreInit /\ DetectInit /\ ExtractInit /\ UpsertInit /\ SelectInit /\ NotifyInit /\ QueryInit /\ LimitInit /\ ArchiveInit /\ ContextInit /\ HealthInit

\* The ingest handler, one request.
Next == IngestNext

Spec == Init /\ [][Next]_vars

\* The stream publisher.
SpecKafka == Init /\ [][KafkaNext]_vars

\* The tenant resolver and its cache, concurrent callers.
SpecResolve == Init /\ [][ResolveNext]_vars

\* The store pools under concurrent requests.
SpecPool == Init /\ [][PoolNext]_vars

\* The storage fan-out of one reading.
SpecStore == Init /\ [][StoreNext]_vars


\* detectAnomalies over readings around the thresholds.
SpecDetect == Init /\ [][DetectNext]_vars

\* extractTenantId over requests carrying any mix of the five sources.
SpecExtract == Init /\ [][ExtractNext]_vars

\* Bodies stored one request after the other, the same body possibly twice.
SpecUpsert == Init /\ [][UpsertNext]_vars

\* Hot-pool selections one after the other.
SpecSelect == Init /\ [][SelectNext]_vars

\* processCriticalAlert calls one after the other.
SpecNotify == Init /\ [][NotifyNext]_vars

\* Query operations one after the other.
SpecQuery == Init /\ [][QueryNext]_vars

\* checkLimits applied to tenants, operations and values.
SpecLimits == Init /\ [][LimitNext]_vars

\* archiveToS3 applied to readings of several tenants under any context.
SpecArchive == Init /\ [][ArchiveNext]_vars

\* Requests wrapped in withTenantContext, interleaved in one process.
SpecContext == Init /\ [][ContextNext]_vars

\* determineHealthStatus applied to equipment, readings and ages.
SpecHealth == Init /\ [][HealthNext]_vars

(***************************************************************************)
(*                               Claims                                    *)
(***************************************************************************)

ValidRequest ==
  /\ hreq.tenant \in MockTenants
  /\ hreq.body.kind = "object"
  /\ ~Falsy(hreq.body.fields.equipment_id)
  /\ ~Falsy(hreq.body.fields.timestamp)

AlertSeverityIndexes == {i \in 1..Len(anomalies) : anomalies[i].severity \in {"critical", "high"}}

\* C1: a request whose tenant resolves and whose body has a non-empty
\* equipment_id and timestamp is never answered anything but 200, success = true,
\* with the submitted equipment_id, however the alert publish, the metrics and
\* notification publishes, the fan-out and the sensor-data publish end.
C1_ValidReadingAnswered200 ==
  (ValidRequest /\ response # NoResponse) =>
     /\ response.status = 200
     /\ response.success
     /\ response.equipment_id = hreq.body.fields.equipment_id

\* C1 witness: a valid request answered 200 although one alert's stream publish
\* failed, one timed out, a notification failed and the sensor-data publish failed.
C1_Witness ==
  /\ ValidRequest
  /\ response.status = 200
  /\ \E i \in 1..Len(dispatch) : dispatch[i].pubOutcome = "error"
  /\ \E i \in 1..Len(dispatch) : dispatch[i].pubOutcome = "timeout"
  /\ \E i \in 1..Len(dispatch) : dispatch[i].notify = "resolved" /\ ~dispatch[i].notifyOk
  /\ bg.publish = "rejected"

\* C5 (as claimed): once every publishAlert of the request has returned, the
\* handler waits for the metrics and notification publishes for at most 100 ms:
\* it is never still suspended on them later than that.
C5_NotifyWaitBounded ==
  (/\ hpc = "awaitAlerts"
   /\ \A i \in 1..Len(dispatch) : dispatch[i].pub = "returned")
  => helapsed <= 100

\* C8: the storage fan-out and the sensor-data publish are launched in the step
\* that returns the 200 response; whatever they do afterwards (fail, complete,
\* stay pending) the response stays the one returned at launch.
C8_ResponseNotAwaitingBackground ==
  bg.store # "none" =>
     /\ hpc = "responded"
     /\ response.status = 200
     /\ response.processing_latency_ms = bg.launchedAt

\* C8 witness: the response is out while the fan-out is still pending and the
\* sensor-data publish has already failed.
C8_Witness ==
  /\ response.status = 200
  /\ bg.store = "pending"
  /\ bg.publish = "rejected"
  /\ bg.log = "error"

C9_PublishAlertNeverRaises ==
  \A c \in CallIds : kcalls[c].kind = "alert" =>
     /\ kcalls[c].pc # "raised"
     /\ (kcalls[c].severity = "critical" /\ kcalls[c].send # "none") =>
            (kcalls[c].pc = "returned" /\ kcalls[c].lat = 0)
     /\ (kcalls[c].severity # "critical" /\ kcalls[c].pc = "racing") =>
            kcalls[c].elapsed <= 100
     /\ (kcalls[c].severity # "critical" /\ kcalls[c].send # "none"
           /\ kcalls[c].pc = "returned") => kcalls[c].lat \in 0..100

\* C9 witness: a critical alert's call has returned with its send unacknowledged,
\* and a high alert's call has returned on the 100 ms timer with its send still
\* in flight.
C9_Witness ==
  /\ \E c \in CallIds : /\ kcalls[c].kind = "alert"
                        /\ kcalls[c].severity = "critical"
                        /\ kcalls[c].pc = "returned"
                        /\ kcalls[c].send = "pending"
  /\ \E c \in CallIds : /\ kcalls[c].kind = "alert"
                        /\ kcalls[c].severity = "high"
                        /\ kcalls[c].pc = "returned"
                        /\ kcalls[c].send = "pending"
                        /\ kcalls[c].lat = 100


\* C4 (as claimed): callers whose resolveTenant calls for one tenant overlap while
\* it is not cached share one directory load: at most one loadTenantConfig for a
\* tenant is in flight at a time.
C4_SingleDirectoryLoad ==
  \A t \in TenantHeaders :
     Cardinality({p \in Resolvers : rcalls[p].pc = "loading" /\ rcalls[p].tenant = t}) <= 1


\* C2 (as claimed): every INSERT of a shared-mode tenant's request on a shared
\* pool runs on a connection whose current_tenant_id was set to that tenant.
C2_StatementsRunUnderOwnTenant ==
  \A e \in executed :
     (/\ e.kind = "INSERT"
      /\ e.pool \in {"hot", "warm"}
      /\ DeploymentType(e.tenant) = "multi-tenant")
     => e.session = e.tenant

\* C3 (as claimed): every hot-tier and warm-tier row written for a shared-mode
\* tenant's reading carries that tenant's tenant_id.
C3_RowsCarryTenantId ==
  \A row \in hotRows \cup warmRows :
     DeploymentType(row.owner) = "multi-tenant" => row.tenant_id = row.owner


\* C6 (as claimed): in the outcome storeSensorDataMultiTier returns, each tier's
\* flag is true exactly when that tier's write succeeded; the s3 flag is false
\* when the cold-tier put-object failed.
C6_FlagsTellTierOutcome ==
  fan.pc = "returned" =>
     /\ fan.result.timescale = (fan.timescale = "fulfilled")
     /\ fan.result.postgres = (fan.postgres = "fulfilled")
     /\ fan.result.s3 = (fan.put = "ok")

TierFailed ==
  \/ fan.timescale = "rejected"
  \/ fan.postgres = "rejected"
  \/ fan.put = "err"

ErrorRoot(tid) ==
  IF DeploymentType(tid) = "multi-tenant" THEN <<"tenants", tid, "errors">> ELSE <<"errors">>

\* C7: when storeSensorDataMultiTier returns, an error-location put of the raw
\* reading has been issued if and only if one of the three tier writes failed;
\* every such put is marked processing_failed and its key starts with errors/
\* (tenants/<tenant_id>/errors/ in shared mode).
C7_ErrorArchiveIffTierFailed ==
  fan.pc = "returned" =>
     /\ (errorPuts # <<>>) <=> TierFailed
     /\ \A i \in 1..Len(errorPuts) :
          /\ errorPuts[i].processing_failed
          /\ SubSeq(errorPuts[i].key, 1, Len(ErrorRoot(fan.tenant))) = ErrorRoot(fan.tenant)

\* C7 witness: a shared-mode fan-out has returned with its warm-tier write failed
\* and its cold-tier put stored; one error put of the reading was issued, under
\* tenants/<tenant_id>/errors/.
C7_Witness ==
  /\ fan.pc = "returned"
  /\ fan.tenant = "shared-tenant"
  /\ fan.postgres = "rejected"
  /\ fan.put = "ok"
  /\ Len(errorPuts) = 1
  /\ errorPuts[1].key = <<"tenants", "shared-tenant", "errors", "PUMP_001">>

\* C7 witness support: a fan-out whose three writes all succeeded issues no
\* error put.
C7_WitnessAllOk ==
  /\ fan.pc = "returned"
  /\ ~TierFailed
  /\ errorPuts = <<>>

\* The metric an anomaly type belongs to.
MetricOf(type) ==
  IF type \in {"critical_temperature", "high_temperature"} THEN "temperature"
  ELSE IF type \in {"critical_vibration", "high_vibration"} THEN "vibration"
  ELSE "pressure"

\* The band the claim assigns to a measurement: no anomaly, or one severity with
\* the bound that was breached.
BandOf(metric, m) ==
  IF ~m.def THEN {}
  ELSE IF metric = "temperature"
  THEN (IF m.v > 180 THEN {[severity |-> "critical", threshold |-> 180]}
        ELSE IF m.v > 150 THEN {[severity |-> "high", threshold |-> 150]}
        ELSE IF m.v < 0 THEN {[severity |-> "medium", threshold |-> 0]}
        ELSE {})
  ELSE IF metric = "vibration"
  THEN (IF m.v > 50 THEN {[severity |-> "critical", threshold |-> 50]}
        ELSE IF m.v > 20 THEN {[severity |-> "high", threshold |-> 20]}
        ELSE {})
  ELSE (IF m.v > 800 THEN {[severity |-> "critical", threshold |-> 800]}
        ELSE IF m.v > 500 THEN {[severity |-> "medium", threshold |-> 500]}
        ELSE IF m.v < 50 THEN {[severity |-> "medium", threshold |-> 50]}
        ELSE {})

AnomaliesOf(metric) == {i \in 1..Len(detOut) : MetricOf(detOut[i].type) = metric}

C12_TenantFailureAnswered ==
  (hpc \in {"responded", "rejected"} /\ hreq.tenant \notin MockTenants) =>
     /\ response # NoResponse
     /\ ~response.success
     /\ hreq.tenant = Absent => response.status = 400
     /\ hreq.tenant # Absent => response.status = 404

\* C13: a request whose tenant identifier is missing or unknown gets no
\* downstream work: no usage tick, no detection, no alert, no notification, no
\* fan-out, no sensor-data publish; and the
\* tenant cache holds what it held before (nothing), with no eviction scheduled.
C13_FailedResolutionDoesNothing ==
  (hpc \in {"responded", "rejected"} /\ hreq.tenant \notin MockTenants) =>
     /\ hctx = NoContext
     /\ usageTicks = 0
     /\ anomalies = <<>>
     /\ alerts = <<>>
     /\ dispatch = <<>>
     /\ bg = NoBackground
     /\ tenantCache = {}
     /\ rtimers = <<>>

\* C13 witness: a reading with a critical temperature, sent for an identifier the
\* directory does not hold, has been turned away.
C13_Witness ==
  /\ hpc = "rejected"
  /\ hreq.tenant = "ghost-corp"
  /\ hreq.body.kind = "object"
  /\ hreq.body.fields.equipment_id = "PUMP_001"
  /\ hreq.body.fields.timestamp # Absent
  /\ hreq.body.fields.temperature = Num(205)
  /\ usageTicks = 0

\* The body carries no usable equipment_id or timestamp: there is no body, the
\* body is the JSON literal null, or it is an object without one of the fields.
LacksRequiredFields(body) ==
  \/ body.kind \in {"absent", "null"}
  \/ /\ body.kind = "object"
     /\ Falsy(body.fields.equipment_id) \/ Falsy(body.fields.timestamp)

NoDownstreamWork ==
  /\ anomalies = <<>>
  /\ alerts = <<>>
  /\ dispatch = <<>>
  /\ bg = NoBackground

\* C14 (as claimed): a request of a resolved tenant whose body lacks equipment_id
\* or timestamp is answered 400 with success = false, and no detection, alert
\* publish, notification, fan-out or sensor-data publish is done for it.
C14_IncompleteBodyRejected400 ==
  (hpc = "responded" /\ hreq.tenant \in MockTenants /\ LacksRequiredFields(hreq.body)) =>
     /\ response.status = 400
     /\ ~response.success
     /\ NoDownstreamWork

\* The required fields a body does not carry.
MissingFields(body) ==
  {f \in {"equipment_id", "timestamp"} : body.kind # "object" \/ Falsy(body.fields[f])}

\* C15 (as claimed): the 400 for missing required fields lists, in details, the
\* fields missing from the body.
C15_DetailsListMissingFields ==
  response.status = 400 => response.details = MissingFields(hreq.body)

ClaimedTenantId(ev) ==
  IF ev.tenantHeader.name # Absent THEN ev.tenantHeader.value ELSE ExtractAfterHeader(ev)

\* C17 (as claimed): extractTenantId returns the identifier of the first source,
\* in the stated order, that yields one, the X-Tenant-ID header counting in any
\* letter case.
C17_FirstSourceWins ==
  exIn # NoEvent => exOut = ClaimedTenantId(exIn)

\* C18 (as claimed): a cache entry is removed exactly 300 s after its own
\* insertion: none is still cached later than that, and no step removes an entry
\* that has been cached for less.
C18_EntryLives300s ==
  /\ [](\A t \in MockTenants : t \in tenantCache => cachedFor[t] <= CACHE_TTL_MS)
  /\ [][\A t \in MockTenants :
          (t \in tenantCache /\ t \notin tenantCache') => cachedFor[t] = CACHE_TTL_MS]_vars

\* C19 (as claimed): a request that arrives after its tenant has exhausted
\* features.api_rate_limit in the current hour is denied, cached context or not:
\* resolveTenant does not return a context for it.
C19_OverLimitDenied ==
  \A p \in Resolvers : rcalls[p].overLimit => rcalls[p].pc # "done"

\* The request just stored carried the same body, for the same tenant, as the
\* one before it.
SameBodyAgain ==
  /\ upReq.pc = "done"
  /\ upOnce # NoSnapshot
  /\ upOnce.tenant = upReq.tenant
  /\ upOnce.body = upReq.body

HotData(rows) == {[r EXCEPT !.ingestion_timestamp = 0] : r \in rows}
WarmData(rows) == {[r EXCEPT !.updated_at = 0] : r \in rows}

C21_PublishedToTenantTopic ==
  /\ \A i \in 1..Len(alerts) : alerts[i].topic = PRIORITY_TOPIC
  /\ bg.publish # "none" => bg.topic = getKafkaConfig(hctx).topics.sensorData

\* The cold object key the claim describes, without any tenant prefix.
PlainColdKey(fac, sd) ==
  <<IF fac = Absent THEN "unknown-facility" ELSE fac, sd.equipment_id,
    "2025", "11", "23", "10", sd.timestamp \o ".json">>

C22_WitnessIsolated ==
  /\ fan.tenant = "acme-corp"
  /\ coldPuts # {}

\* The promotion criteria as the claim words them.
MeetsPromotionCriteria(tier, usage) ==
  \/ usage.dailyDataVolumeGB > 100
  \/ usage.avgQueriesPerSecond > 50
  \/ usage.slaViolations > 5
  \/ tier = "enterprise"

\* C23: the hot pool selected is the tenant's dedicated pool iff the tenant is
\* isolated and (daily volume > 100 GB or queries/sec > 50 or SLA violations > 5
\* or tier = enterprise), else the shared pool; at most one dedicated pool is
\* ever created per tenant_id.
C23_DedicatedIffIsolatedAndPromoted ==
  /\ selOut # NoSelection =>
       selOut.pool =
         IF /\ selOut.ctx.deployment_type = "single-tenant"
            /\ MeetsPromotionCriteria(selOut.ctx.subscription_tier, selOut.usage)
         THEN DedicatedPool(selOut.ctx.tenant_id) ELSE SHARED_POOL
  /\ selDecide # NoDecision =>
       selDecide.needs = MeetsPromotionCriteria(selDecide.tier, selDecide.usage)
  /\ \A t \in SelTenants : selCreated[t] <= 1

\* C23 witness: a call returned acme-corp's dedicated pool without
\* constructing it, an earlier call having done so, while another tenant has a
\* dedicated pool too.
C23_Witness ==
  /\ selOut.pool = DedicatedPool("acme-corp")
  /\ ~selOut.constructed
  /\ selCreated["acme-corp"] = 1
  /\ \E t \in SelTenants \ {"acme-corp"} : selCreated[t] = 1

\* Topics that received a notification of the current processCriticalAlert call.
NotifiedTopics == {m.topic : m \in {x \in nSent : x.n = nCall.n}}

\* C24: for each alert dispatched (its notification not failing), one
\* notification goes to each notification topic configured for the request's
\* tenant, and none to a topic not configured for that tenant.
C24_NotifiesTenantTopics ==
  (nCall.pc = "resolved" /\ nCall.sns # "err") => NotifiedTopics = SnsTopics(nCall.tenant)

\* C26: processCriticalAlert resolves with an outcome whose cloudwatch flag is
\* true iff the metrics publish succeeded, whose sns flag is true iff a
\* notification was actually sent successfully, whose success is true iff both
\* are, and whose channels_notified lists exactly the channels that succeeded.
C26_OutcomeTellsChannels ==
  /\ nCall.pc # "rejected"
  /\ nCall.pc = "resolved" =>
       /\ nResult.cloudwatch = (nCall.cw = "ok")
       /\ nResult.sns = (NotifiedTopics # {})
       /\ nResult.success = (nResult.cloudwatch /\ nResult.sns)
       /\ nResult.channels_notified =
            {ch \in {"cloudwatch"} : nCall.cw = "ok"}
               \cup {ch \in {"sns"} : NotifiedTopics # {}}

\* obj[key] of a JavaScript object: undefined for a key the object does not have.
Property(obj, key) == IF key \in DOMAIN obj THEN obj[key] ELSE Absent

\* C25: every anomaly and every alert produced for a request carries the
\* tenant_id of the TenantContext that resolved the request.
C25_AnomaliesAndAlertsCarryTenant ==
  /\ \A i \in 1..Len(anomalies) : Property(anomalies[i], "tenant_id") = hctx.tenant_id
  /\ \A i \in 1..Len(alerts) : Property(alerts[i], "tenant_id") = hctx.tenant_id

\* C27: storeSensorDataMultiTier never rejects, and each of the three tier
\* writes is attempted exactly once per call, whatever the other two do.
C27_EachTierAttemptedOnce ==
  /\ fan.pc \in {"idle", "running", "returned"}
  /\ fan.pc \in {"running", "returned"} => \A t \in Tiers : fan.attempts[t] = 1

\* C27 witness: a call returned after its hot write failed; the warm write
\* succeeded and the cold object was put.
C27_Witness ==
  /\ fan.pc = "returned"
  /\ fan.timescale = "rejected"
  /\ fan.postgres = "fulfilled"
  /\ fan.put = "ok"

\* C28: a request answered 200 has launched exactly one storage fan-out and
\* one sensor-data publish, and launched them only after every alert dispatch
\* of the request had completed; a request answered 400 or 500 has launched none.
C28_BackgroundLaunchedOnceAfterAlerts ==
  /\ response.status = 200 =>
       /\ bg.launches = 1
       /\ bg.store # "none"
       /\ bg.publish # "none"
  /\ bg.launches > 0 =>
       \A i \in 1..Len(dispatch) :
          dispatch[i].pub = "returned" /\ dispatch[i].notify = "resolved"
  /\ response.status \in {400, 500} => bg = NoBackground

\* C28 witness: a 200 response for a request with two alerts, both dispatches
\* complete, the background work launched after time had passed.
C28_Witness ==
  /\ response.status = 200
  /\ Len(dispatch) >= 2
  /\ bg.launches = 1
  /\ bg.launchedAt > 0

\* C29: every 200 response has sla_compliant = true exactly when its
\* processing_latency_ms is below 500; at 500 ms or more the flag is false and
\* the status is still 200.
C29_SlaFlagIffBelow500 ==
  response.status = 200 =>
     (response.sla_compliant <=> response.processing_latency_ms < 500)

\* C29 witness: a 200 response whose latency is exactly 500 ms, flagged
\* non-compliant.
C29_Witness ==
  /\ response.status = 200
  /\ response.processing_latency_ms = 500
  /\ ~response.sla_compliant

\* A publish call starts in this step.
PublishStarts == \E c \in CallIds : kcalls[c].pc = "idle" /\ kcalls'[c].pc # "idle"

\* C30: the producer is a lazily created singleton: at most one instance is
\* created until disconnectKafka is called, and the first publish after a
\* disconnectKafka call has ended creates a new instance.
C30_SingletonUntilDisconnect ==
  /\ [](disc.epoch <= 1)
  /\ [][(disc.ended /\ PublishStarts) => created' = created + 1]_vars

\* C30, first half alone: at most one instance per disconnectKafka epoch.
C30_OneInstancePerEpoch == disc.epoch <= 1

\* C31: every query operation resolves the tenant context of its request before
\* it touches a store, and emits exactly one per-tenant usage tick.
C31_QueriesResolveAndTick ==
  /\ qReq.blind = 0
  /\ qReq.reads > 0 => qReq.ctx # NoContext
  /\ qReq.pc = "done" => qReq.ticks = 1

\* The limit the claim names for an operation, 0 for an unknown operation.
ClaimedLimit(tid, operation) ==
  IF operation = "equipment-count" THEN TenantLimits(tid).max_equipment
  ELSE IF operation = "api-requests-per-hour" THEN TenantLimits(tid).api_rate_limit
  ELSE IF operation = "concurrent-users" THEN TenantLimits(tid).concurrent_users
  ELSE 0

\* C32 (as claimed): checkLimits returns false iff the operation is one of the
\* three limited ones and the value exceeds the tenant's limit for it; true for
\* a value within the limit and for an unknown operation.
C32_FalseIffValueExceedsLimit ==
  limIn # NoLimitCall =>
     (~limOut <=>
        /\ limIn.operation \in {"equipment-count", "api-requests-per-hour",
                                "concurrent-users"}
        /\ limIn.value > ClaimedLimit(limIn.tenant, limIn.operation))

\* C33 (as claimed): no message is sent on the producer before its connect()
\* has completed: every publish call that has handed a message to
\* producer.send did so on a producer whose connection was established, also
\* when several publishes start concurrently on a cold process.
C33_NoSendBeforeConnected ==
  \A c \in CallIds : kcalls[c].send # "none" => kcalls[c].connected

\* C36 (as claimed): a failed connect() does not poison the producer singleton:
\* a publish that starts while the module's producer is one whose connect()
\* failed attempts the connection again (a new connect() is awaited) instead of
\* sending on the never-connected producer.
C36_FailedConnectIsRetried ==
  [][(producer.conn = "failed" /\ PublishStarts)
        => (producer'.conn = "connecting" /\ \A c \in CallIds : kcalls'[c].send = kcalls[c].send)]_vars

\* C37 (as claimed): one storeSensorDataMultiTier call issues at most one
\* error-location put for its reading, whichever tiers fail (errorPuts holds
\* the error puts of the current call).
C37_AtMostOneErrorPut == Len(errorPuts) <= 1

\* C35 (as claimed): readings of two different tenants are never written to
\* the same (bucket, key), in the cold tier or in the error location, whatever
\* the deployment modes, an isolated tenant without a dedicated bucket and a
\* call without tenant context included.
C35_TenantsNeverShareAnObject ==
  \A a, b \in archObjs :
     a.owner # b.owner => <<a.bucket, a.key>> # <<b.bucket, b.key>>

\* C35, the directory's two tenants archived under their own contexts: their
\* objects are kept apart.
C35_DirectoryTenantsApart ==
  \A a, b \in archObjs :
     /\ a.owner = "acme-corp" /\ b.owner = "shared-tenant"
     /\ a.bucket # SHARED_BUCKET
     => <<a.bucket, a.key>> # <<b.bucket, b.key>>

\* C34 (as claimed): while a request's handler body runs inside
\* withTenantContext, CURRENT_TENANT_ID and CURRENT_DEPLOYMENT_TYPE of the
\* process equal that request's tenant and deployment type, whenever the body
\* reads them, also with requests of different tenants interleaved.
C34_BodySeesOwnTenant ==
  \A r \in CtxIds :
     wreqs[r].pc \in {"body", "done"} =>
        wreqs[r].seen = EnvOf(TenantContextOf(wreqs[r].tenant))

\* C34, the part that holds: when the handler is called, and as long as no
\* other request has resolved since, the variables are the request's own.
C34_OwnTenantWhenAlone ==
  \A r \in CtxIds :
     (wreqs[r].pc \in {"body", "done"}
        /\ \A q \in CtxIds \ {r} : wreqs[q].pc \in {"idle", "resolving", "rejected"})
     => wreqs[r].seen = EnvOf(TenantContextOf(wreqs[r].tenant))

\* The cases in which the claim allows 'offline': the equipment is offline or
\* in error, there is no reading, or the reading is more than 60 minutes old.
OfflineAllowed(in) ==
  \/ in.status \in {"offline", "error"}
  \/ ~in.reading.present
  \/ in.age.v > 60

\* C38 (as claimed): determineHealthStatus returns 'offline' only if the
\* equipment status is offline or error, there is no reading, or the latest
\* reading is more than 60 minutes old; otherwise 'critical' if a metric is
\* above its critical bound, else 'warning' if a metric is outside its normal
\* band, else 'healthy'.  A reading 0 to 60 minutes old counts as recent.
C38_HealthStatusByRule ==
  hsIn # NoHealthCall =>
     hsOut = IF OfflineAllowed(hsIn) THEN "offline"
             ELSE IF hasCritical(hsIn.reading) THEN "critical"
             ELSE IF hasWarnings(hsIn.reading) THEN "warning"
             ELSE "healthy"

\* C38, the part that holds: for a reading 1 to 60 minutes old, and whenever
\* there is none, the status follows the rule.
C38_RuleFromOneMinute ==
  (hsIn # NoHealthCall /\ (hsIn.reading.present => hsIn.age.v >= 1)) =>
     hsOut = IF OfflineAllowed(hsIn) THEN "offline"
             ELSE IF hasCritical(hsIn.reading) THEN "critical"
             ELSE IF hasWarnings(hsIn.reading) THEN "warning"
             ELSE "healthy"

====
